---- MODULE Spec2Model ----
(***************************************************************************)
(* Model of sanoid-manager's backend: the replication scheduler and job    *)
(* executor (services/scheduler.py, routers/sync_jobs.py), the log         *)
(* retention endpoint (routers/logs.py), the notification service          *)
(* (services/notification_service.py) and the SSH command layer            *)
(* (services/ssh_service.py).                                              *)
(*                                                                         *)
(* Sixteen specifications share the module:                                   *)
(*   Spec          the store (sync_jobs, job_logs), the scheduler loop,    *)
(*                 the API calls on jobs and the run tasks;                *)
(*   SpecNotifier  NotificationService.send_job_notification;              *)
(*   SpecSSH       SSHService.execute and its connection pool;             *)
(*   SpecDigest    the daily digest trigger of the scheduler loop;         *)
(*   SpecPve       ProxmoxService.register_vm and its callers;             *)
(*   SpecNodes     the nodes API (routers/nodes.py);                       *)
(*   SpecRefs      the rows of sync_jobs and the nodes they name;          *)
(*   SpecSanoid    the manual run of the snapshot tool (routers/snapshots);*)
(*   SpecExec      one SSHService.execute call, its result and its timeout;*)
(*   SpecSyncoid   SyncoidService.build_syncoid_command as run_sync calls  *)
(*                 it;                                                     *)
(*   SpecParser    SyncoidService._parse_transferred on run_sync's output; *)
(*   SpecCron      one job's schedule in the running loop and in the API;  *)
(*   SpecRegister  a run's guest registration and the rows it leaves;      *)
(*   SpecDedup     the notifier with the success notifications switched    *)
(*                 off and on;                                             *)
(*   SpecLoop      the rounds of _scheduler_loop with jobs whose cron      *)
(*                 expression does not parse (SpecLoopFair: the same with  *)
(*                 the event loop's fairness);                             *)
(*   SpecAccess    the read operations of the API and allowed_nodes.       *)
(* Each leaves the variables of the others unchanged.  In Spec the result  *)
(* of the SSH command is an input of the actions that end a run; a         *)
(* scheduled run stays suspended in its notifier call, whose outcome is an *)
(* input, and what the notifier does with it is SpecNotifier.              *)
(*                                                                         *)
(* Everything that runs on the asyncio event loop between two awaits is    *)
(* one atomic action: SQLAlchemy calls are synchronous, so the handlers of *)
(* the API and the first part of a run task never interleave.  The SSH     *)
(* commands run on the default thread pool (run_in_executor) and do        *)
(* interleave.                                                             *)
(***************************************************************************)
EXTENDS Integers, FiniteSets, Sequences, Bags, TLC

\* ------------------------------------------------------------------ bounds
NJobs == 1          \* job ids 1..NJobs
MaxTime == 2        \* the clock runs 0..MaxTime (one unit = one scheduler minute)
MaxLogs == 2        \* job_logs holds at most MaxLogs rows at a time
MaxTasks == 2       \* run tasks in flight at a time
MaxRuns == 2        \* no new run is dispatched for a job whose counters reached MaxRuns
DayTicks == 1       \* clock units per day
NNotified == 2      \* the notifier is handed outcomes of jobs 1..NNotified
MaxClock == 5       \* the notifier's clock runs 0..MaxClock
MaxCalls == 2       \* send_job_notification calls suspended at a time
MaxRestarts == 1    \* restarts of the process in the notifier's specification
NKeys == 2          \* the keys user@host:port of the connection pool, 1..NKeys
MaxThreads == 2     \* executor threads running _execute at a time
MaxClients == 3     \* SSH clients connected in one behaviour

JobIds == 1..NJobs
LogIds == 1..MaxLogs
Times == 0..MaxTime

\* cron expressions: 0 is the empty schedule, p > 0 fires at every multiple of p
Schedules == {0, 2}
\* the `days` query parameter of DELETE /api/logs/cleanup (an unvalidated int)
CleanupDays == {0, 1}

None == -1

\* -------------------------------------------------------------- variables
VARIABLES
    now,        \* datetime.utcnow()
    up,         \* the process is running
    sync_jobs,  \* table sync_jobs: job id -> row (exists = FALSE: no such row)
    job_logs,   \* table job_logs: a set of rows
    tasks,      \* the bag of run tasks in flight (_execute_job, execute_sync_job_task)
    sched_jobs, \* SchedulerService._jobs of the running scheduler (main.scheduler)
    service_jobs \* ._jobs of services.scheduler.scheduler_service, which the API calls

coreVars == <<now, up, sync_jobs, job_logs, tasks, sched_jobs, service_jobs>>

\* NotificationService (services/notification_service.py)
VARIABLES
    clock,                    \* datetime.utcnow() as the notifier reads it
    notification_config,      \* the NotificationConfig row (or NoConfig)
    config_cache,             \* NotificationService._config
    last_config_load,         \* NotificationService._last_config_load
    daily_job_notifications,  \* NotificationService._daily_job_notifications
    calls,                    \* send_job_notification calls suspended at an await
    sent,                     \* the notifications of scheduled successes, counted
    returned,                 \* the last call that returned, with its result
    epoch                     \* how many times the process was restarted

notifVars == <<clock, notification_config, config_cache, last_config_load,
               daily_job_notifications, calls, sent, returned, epoch>>

\* SSHService (services/ssh_service.py)
VARIABLES
    connections,  \* SSHService._connections: key -> client (NoClient: no entry)
    transports,   \* the clients whose transport is active
    threads,      \* the threads of the default executor that run _execute
    clients       \* how many paramiko.SSHClient objects were connected so far

sshVars == <<connections, transports, threads, clients>>

\* the daily digest trigger of the scheduler loop (specification SpecDigest)
VARIABLES
    utcnow,                 \* datetime.utcnow() as _check_daily_summary reads it
    running,                \* the process and its scheduler loop run
    loop_pc,                \* _scheduler_loop: "check" or "sleep"
    system_config,          \* SystemConfig rows daily_summary_hour, _enabled
    daily_summary_hour,     \* SchedulerService._daily_summary_hour
    daily_summary_enabled,  \* SchedulerService._daily_summary_enabled
    last_daily_summary,     \* SchedulerService._last_daily_summary
    summary_calls           \* UTC day -> calls of send_daily_summary so far

digestVars == <<utcnow, running, loop_pc, system_config, daily_summary_hour,
                daily_summary_enabled, last_daily_summary, summary_calls>>

\* the registration of a replicated guest on the destination (SpecPve)
VARIABLES
    pve_job,      \* the SyncJob columns the registration reads
    source_conf,  \* the guest's config file on the source node
    dest_conf,    \* the config files on the destination: guest id, kind -> text
    regs          \* the registrations in flight or done: id -> record

pveVars == <<pve_job, source_conf, dest_conf, regs>>

\* the nodes API (SpecNodes)
VARIABLES
    nodes,      \* table nodes: node id -> row (exists = FALSE: no such row)
    datasets,   \* table datasets: a set of rows [id, node_id, name]
    refreshes   \* GET /api/nodes/{id}/datasets requests: request -> position

nodeVars == <<nodes, datasets, refreshes>>

\* the rows of sync_jobs and the nodes they name (SpecRefs)
VARIABLES
    node_ids,   \* table nodes: the ids of its rows
    job_rows,   \* table sync_jobs: a set of rows
    replicas,   \* POST /api/sync-jobs/vm-replica requests: request -> position
    groups,     \* the vm_group_id values handed out so far
    run_logs,   \* the rows of job_logs the runs of these jobs wrote
    run_task    \* the run task of these jobs: its job and where it is

refVars == <<node_ids, job_rows, replicas, groups, run_logs, run_task>>

\* the manual run of the snapshot tool (SpecSanoid)
VARIABLES
    snap_now,    \* datetime.utcnow() as the inserts of run_sanoid read it
    snap_runs,   \* POST /api/snapshots/node/{id}/run-sanoid requests: request -> position
    snap_logs    \* the rows of job_logs with job_type 'snapshot'

sanoidVars == <<snap_now, snap_runs, snap_logs>>

\* one SSHService.execute call (SpecExec)
VARIABLES
    call   \* the call: position of _execute, the remote command, the SSHResult

execVars == <<call>>

\* SyncoidService (SpecSyncoid)
VARIABLES
    cmd_args,   \* the arguments run_sync was called with
    cmd,        \* the command build_syncoid_command returned
    output,     \* stdout + stderr of the command, a sequence of words
    transferred \* what _parse_transferred returned

syncoidVars == <<cmd_args, cmd, output, transferred>>

\* one job's schedule, as the running loop and the API hold it
VARIABLES
    cron_now,    \* datetime.utcnow(), in scheduler minutes
    cron_job,    \* the job's row of sync_jobs: schedule, is_active, last_run
    loop_next,   \* main.scheduler._jobs[job.id] (None: no entry)
    api_next,    \* scheduler_service._jobs[job.id] (None: no entry)
    changed_at,  \* when the API last set the schedule or reactivated the job
    fired        \* the loop dispatched the job since then

cronVars == <<cron_now, cron_job, loop_next, api_next, changed_at, fired>>

\* one run from the return of run_sync to its commit (SpecRegister)
VARIABLES
    rv_pc,        \* where the run task is
    rv_kind,      \* "sched": _execute_job, "manual": execute_sync_job_task
    rv_job,       \* the job row in the task's session: register_vm, vm_id, last_status
    rv_log,       \* the run's JobLog row in the task's session
    rv_result,    \* what run_sync did: "none" yet, "success", "failed", "raised"
    rv_attempted  \* the run asked the source for the guest's config

regrunVars == <<rv_pc, rv_kind, rv_job, rv_log, rv_result, rv_attempted>>

\* the rounds of _scheduler_loop (SpecLoop)
VARIABLES
    lp_tick,        \* datetime.utcnow() of the round, in minutes
    lp_running,     \* SchedulerService._running
    lp_pc,          \* where the loop task is in its round
    lp_rows,        \* table sync_jobs: job id -> schedule (0: no row or no schedule)
    lp_next,        \* SchedulerService._jobs: job id -> next run (None: no entry)
    lp_dispatched,  \* the jobs for which this round created a run task
    lp_raised,      \* the jobs at which this round's pass raised
    lp_failed,      \* this round's query for the jobs raised
    lp_digest       \* this round called _check_daily_summary

loopVars == <<lp_tick, lp_running, lp_pc, lp_rows, lp_next, lp_dispatched,
              lp_raised, lp_failed, lp_digest>>

\* what a user reads through the API (SpecAccess)
VARIABLES
    ac_user,      \* the user row: role, allowed_nodes (is_null: the column is NULL)
    ac_jobs,      \* table sync_jobs: rows with their two nodes and their group
    ac_logs,      \* table job_logs: rows with the job and the nodes they name
    ac_response   \* the last answer to a read: operation, status, the nodes it tells of

accessVars == <<ac_user, ac_jobs, ac_logs, ac_response>>

restVars ==
    <<digestVars, pveVars, nodeVars, refVars, sanoidVars,
      execVars, syncoidVars, cronVars, regrunVars, loopVars, accessVars>>

vars == <<coreVars, notifVars, sshVars, restVars>>

\* ------------------------------------------------------------ the store
\* database.py SyncJob: the columns the scheduler and executor read or write
BlankJob ==
    [exists |-> FALSE, is_active |-> FALSE, schedule |-> 0,
     retry_on_failure |-> FALSE, last_run |-> None, last_status |-> "null",
     run_count |-> 0, error_count |-> 0, consecutive_failures |-> 0]

\* database.py SyncJob column defaults: max_retries, retry_delay_minutes
DefaultMaxRetries == 3
DefaultRetryDelay == 15

\* the stale-threshold of the start-up sweep the specification describes
StaleThreshold == 1

\* A new SyncJob row: is_active defaults to True, the counters to 0
NewJob(schedule, retry) ==
    [exists |-> TRUE, is_active |-> TRUE, schedule |-> schedule,
     retry_on_failure |-> retry, last_run |-> None, last_status |-> "null",
     run_count |-> 0, error_count |-> 0, consecutive_failures |-> 0]

SetMax(S) == IF S = {} THEN 0 ELSE CHOOSE x \in S : \A y \in S : y <= x
SetMin(S) == CHOOSE x \in S : \A y \in S : x <= y

\* INTEGER PRIMARY KEY without AUTOINCREMENT: the next rowid is max(rowid) + 1
NextJobId == SetMax({j \in JobIds : sync_jobs[j].exists}) + 1
NextLogId == SetMax({r.id : r \in job_logs}) + 1

LogRow(id) == CHOOSE r \in job_logs : r.id = id
HasLog(id) == \E r \in job_logs : r.id = id

\* a cron iterator that returns t itself when t is an occurrence
CronAtOrAfter(p, t) == ((t + p - 1) \div p) * p

\* croniter(schedule, t).get_next(): the first occurrence strictly after t
CronNext(p, t) == ((t \div p) + 1) * p

\* -------------------------------------------------------------- run tasks
\* a task created by asyncio.create_task / BackgroundTasks.add_task, not yet run
Dispatched(kind, j) ==
    [pc |-> "dispatched", kind |-> kind, job_id |-> j, log |-> 0,
     rc |-> 0, ec |-> 0, cf |-> 0]

Running == BagToSet(tasks)

\* one new task per job of S
RECURSIVE Place(_, _, _)
Place(ts, kind, S) ==
    IF S = {} THEN ts
    ELSE LET j == SetMin(S)
         IN  Place(ts (+) SetToBag({Dispatched(kind, j)}), kind, S \ {j})

\* the bag with task t replaced by task u / with task t gone
Replace(t, u) == (tasks (-) SetToBag({t})) (+) SetToBag({u})
Without(t) == tasks (-) SetToBag({t})

MayDispatch(j) ==
    /\ sync_jobs[j].run_count < MaxRuns
    /\ sync_jobs[j].error_count < MaxRuns

\* ------------------------------------------------------- notifier: data
\* the notifier's clock counts half days: a day is NDayTicks units, and the
\* 60 seconds of _config_cache_seconds are scaled to one unit
NDayTicks == 2
ConfigCacheTicks == 1
CleanupAfterDays == 2

NotifiedJobs == 1..NNotified
Channels == {"email", "webhook", "telegram"}
\* scheduler.py hands over "success" or "failed", always with is_scheduled=True
Outcomes == {"success", "failed"}
IsScheduled == {TRUE}

\* database.py NotificationConfig: the columns send_job_notification reads
\* (a string column is TRUE when it holds a non-empty value)
ConfigRow(s, f, smtp, wh, url, tg, token, chat) ==
    [exists |-> TRUE, notify_on_success |-> s, notify_on_failure |-> f,
     smtp_enabled |-> smtp, webhook_enabled |-> wh, webhook_url |-> url,
     telegram_enabled |-> tg, telegram_bot_token |-> token,
     telegram_chat_id |-> chat]

\* db.query(NotificationConfig).first() on an empty table
NoConfig == [ConfigRow(FALSE, FALSE, FALSE, FALSE, FALSE, FALSE, FALSE, FALSE)
                EXCEPT !.exists = FALSE]

\* the bodies of PUT /api/settings/notifications the model sends
ConfigUpdates ==
    { ConfigRow(TRUE, TRUE, TRUE, TRUE, TRUE, TRUE, TRUE, TRUE),
      ConfigRow(TRUE, FALSE, FALSE, TRUE, FALSE, TRUE, TRUE, TRUE) }

\* send_job_notification: the conditions under which each channel is used
EnabledChannels(config) ==
    {ch \in Channels :
        \/ ch = "email" /\ config.smtp_enabled
        \/ ch = "webhook" /\ config.webhook_enabled /\ config.webhook_url
        \/ ch = "telegram" /\ config.telegram_enabled
              /\ config.telegram_bot_token /\ config.telegram_chat_id}

\* the value a caller of send_job_notification gets back
Result(j, status, scheduled, reason, chans) ==
    [job_id |-> j, status |-> status, is_scheduled |-> scheduled,
     reason |-> reason, channels |-> chans]

\* sent[j][ch]: the notifications of scheduled successes of job j that left on
\* channel ch for the outcomes handed over on `day`, the last day for which any
\* left: n of them in all, since_start of them since the process started
NoneSent == [day |-> None, n |-> 0, since_start |-> 0]

InitNotifier ==
    /\ clock = 0
    /\ notification_config = NoConfig
    /\ config_cache = NoConfig
    /\ last_config_load = None
    /\ daily_job_notifications = [j \in NotifiedJobs |-> None]
    /\ calls = EmptyBag
    /\ sent = [j \in NotifiedJobs |-> [ch \in Channels |-> NoneSent]]
    /\ returned = Result(0, "none", FALSE, "none", {})
    /\ epoch = 0

\* ------------------------------------------------------------ ssh: data
Keys == 1..NKeys
NoClient == 0

InitSSH ==
    /\ connections = [k \in Keys |-> NoClient]
    /\ transports = {}
    /\ threads = EmptyBag
    /\ clients = 0

\* ticks of the scheduler loop per hour, the last tick, calls counted per day
TicksPerHour == 2
MaxUtc == 68
MaxSummaryCalls == 2

DefaultSummaryHour == 8
MaxJobRows == 2
NGroups == 2
NReplicas == 1
MaxDisks == 2
MaxRunLogs == 1
NAccessJobs == 2     \* job rows of the access specification
MaxAccessLogs == 1   \* log rows of the access specification
NLoopJobs == 2       \* the jobs of the loop's specification, 1..NLoopJobs
MaxLoopTicks == 3    \* the rounds of the loop's specification
MaxCronTime == 6     \* the clock of the schedule's specification runs 0..MaxCronTime
NSnapRuns == 2
MaxSnapLogs == 2
MaxSnapTime == 3
MaxTimeout == 2
MaxElapsed == 4
MaxWords == 2
DefaultSshPort == 22
SummaryHours == {8, 9}
Unset == "unset"

HourOf(t) == (t \div TicksPerHour) % 24
DateOfUtc(t) == t \div (24 * TicksPerHour)
Days == 0..DateOfUtc(MaxUtc)

InitDigest ==
    /\ utcnow = 0
    /\ running = TRUE
    /\ loop_pc = "check"
    /\ system_config = [hour |-> None, enabled |-> Unset]
    /\ daily_summary_hour = DefaultSummaryHour
    /\ daily_summary_enabled = TRUE
    /\ last_daily_summary = None
    /\ summary_calls = [d \in Days |-> 0]

\* registrations followed
MaxRegs == 2

RegIds == 1..MaxRegs
SourceVmId == 100
OtherVmId == 200
VmIds == {SourceVmId, OtherVmId}
VmTypes == {"qemu", "lxc"}

\* texts are sequences of characters; NoText: no file, or a column not set
NoText == <<>>
SourceStorage == <<"s">>
DestStorage == <<"d">>
Colon == <<":">>
ConfigTexts ==
    { <<"a", ":", " ", "s", ":", "1", "\n", "m", ":", " ", "2">>,
      <<"a", ":", " ", "s", ":", "1", "\n", "b", ":", " ", "s", ":", "2">>,
      <<"m", ":", " ", "2">> }
OldConfig == <<"o", ":", " ", "0">>

PveJobs ==
    [vm_id : {SourceVmId}, dest_vm_id : {None, OtherVmId}, vm_type : VmTypes,
     source_storage : {NoText, SourceStorage},
     dest_storage : {NoText, DestStorage}]

IdleReg ==
    [pc |-> "idle", caller |-> "none", vmid |-> None, content |-> NoText,
     source_storage |-> NoText, dest_storage |-> NoText, existed |-> FALSE,
     result |-> "none"]

NoPveJob ==
    [vm_id |-> SourceVmId, dest_vm_id |-> None, vm_type |-> "qemu",
     source_storage |-> NoText, dest_storage |-> NoText]

\* no replica job for a guest yet
InitPve ==
    /\ pve_job = NoPveJob
    /\ source_conf = NoText
    /\ dest_conf = [v \in VmIds |-> [k \in VmTypes |-> NoText]]
    /\ regs = [r \in RegIds |-> IdleReg]

\* node rows, dataset rows, dataset requests followed
NNodes == 2
MaxDatasets == 2
NRequests == 2

NodeIds == 1..NNodes
DatasetIds == 1..MaxDatasets
RequestIds == 1..NRequests
NodeNames == {"pve1", "pve2"}
DatasetNames == {"rpool/data", "rpool/vm"}
Keep == "keep"

\* updated_at: 0 as long as it is the row's created_at, 1 once an UPDATE set it
BlankNode == [exists |-> FALSE, name |-> "", is_auth_node |-> FALSE, updated_at |-> 0]
IdleRequest == [pc |-> "idle", node_id |-> None, pending |-> {}]

InitNodes ==
    /\ nodes = [n \in NodeIds |-> BlankNode]
    /\ datasets = {}
    /\ refreshes = [q \in RequestIds |-> IdleRequest]

TypeOK ==
    /\ now \in Times
    /\ up \in BOOLEAN
    /\ DOMAIN sync_jobs = JobIds
    /\ \A r \in job_logs : r.id \in LogIds
    /\ IsABag(tasks) /\ BagCardinality(tasks) <= MaxTasks
    /\ DOMAIN sched_jobs = JobIds

\* ------------------------------------------------ jobs and their nodes
JobRowIds == 1..MaxJobRows
GroupIds == 1..NGroups
ReplicaIds == 1..NReplicas
NoGroup == 0
NoRun == [job_id |-> 0, pc |-> "none"]
IdleReplica == [pc |-> "idle", source_node_id |-> 0, dest_node_id |-> 0, vm_id |-> None]

InitRefs ==
    /\ node_ids = {}
    /\ job_rows = {}
    /\ replicas = [q \in ReplicaIds |-> IdleReplica]
    /\ groups = 0
    /\ run_logs = {}
    /\ run_task = NoRun

\* ------------------------------------------------- the snapshot tool
SnapRunIds == 1..NSnapRuns
SnapLogIds == 1..MaxSnapLogs

InitSanoid ==
    /\ snap_now = 0
    /\ snap_runs = [q \in SnapRunIds |-> "idle"]
    /\ snap_logs = {}

\* ------------------------------------------------- one execute call
\* pc: where _execute is; timeout: the argument, in ticks; command: what the
\* remote command does; elapsed: ticks since the command was started;
\* issued: how often the command was sent; failed: what went wrong;
\* exit_status: paramiko's Channel.exit_status (-1 until the server sends one)
Timeouts == 1..MaxTimeout
IdleCall ==
    [pc |-> "idle", timeout |-> 1, command |-> "none", elapsed |-> 0, issued |-> 0,
     failed |-> "none", exit_status |-> -1, success |-> FALSE, exit_code |-> 0]

InitExec == call = IdleCall

\* ------------------------------------------------- syncoid
\* Python's None and "" are both written "" (the code tests truthiness only)
NoArgs ==
    [source_host |-> "", source_dataset |-> "", dest_host |-> "", dest_dataset |-> "",
     source_user |-> "", dest_user |-> "", source_port |-> 0, dest_port |-> 0,
     source_key |-> "", dest_key |-> "", recursive |-> FALSE, compress |-> "",
     mbuffer_size |-> "", no_sync_snap |-> FALSE, force_delete |-> FALSE,
     extra_args |-> ""]

NoCronJob == [exists |-> FALSE, schedule |-> 0, is_active |-> FALSE, last_run |-> None]

InitCron ==
    /\ cron_now = 0
    /\ cron_job = NoCronJob
    /\ loop_next = None
    /\ api_next = None
    /\ changed_at = None
    /\ fired = FALSE

NoRunLog == [status |-> "none", message |-> <<>>, error |-> "none", completed |-> FALSE]

InitRegister ==
    /\ rv_pc = "idle"
    /\ rv_kind = "sched"
    /\ rv_job = [register_vm |-> FALSE, vm_id |-> None, last_status |-> "null"]
    /\ rv_log = NoRunLog
    /\ rv_result = "none"
    /\ rv_attempted = FALSE

LoopJobs == 1..NLoopJobs

InitLoop ==
    /\ lp_tick = 0
    /\ lp_running = TRUE
    /\ lp_pc = "jobs"
    /\ lp_rows = [j \in LoopJobs |-> 0]
    /\ lp_next = [j \in LoopJobs |-> None]
    /\ lp_dispatched = {}
    /\ lp_raised = {}
    /\ lp_failed = FALSE
    /\ lp_digest = FALSE

\* allowed_nodes of a user row: NULL (no restriction) or a list of node ids
AllNodes == [is_null |-> TRUE, ids |-> {}]
OnlyNodes(ids) == [is_null |-> FALSE, ids |-> ids]
NoResponse == [op |-> "none", status |-> 0, nodes |-> {}]

InitAccess ==
    /\ ac_user = [role |-> "admin", allowed_nodes |-> AllNodes]
    /\ ac_jobs = {}
    /\ ac_logs = {}
    /\ ac_response = NoResponse

InitSyncoid ==
    /\ cmd_args = NoArgs
    /\ cmd = ""
    /\ output = <<>>
    /\ transferred = ""

Init ==
    /\ now = 0
    /\ up = TRUE
    /\ sync_jobs = [j \in JobIds |-> BlankJob]
    /\ job_logs = {}
    /\ tasks = EmptyBag
    /\ sched_jobs = [j \in JobIds |-> None]
    /\ service_jobs = [j \in JobIds |-> None]
    /\ InitNotifier
    /\ InitSSH
    /\ InitDigest
    /\ InitPve
    /\ InitNodes
    /\ InitRefs
    /\ InitSanoid
    /\ InitExec
    /\ InitSyncoid
    /\ InitCron
    /\ InitRegister
    /\ InitLoop
    /\ InitAccess

\* time passes
Tick ==
    /\ now < MaxTime
    /\ now' = now + 1
    /\ UNCHANGED <<up, sync_jobs, job_logs, tasks, sched_jobs, service_jobs, notifVars, sshVars, restVars>>

\* ------------------------------------------------------------- scheduler
\* _check_and_run_jobs: the query for active jobs with a non-empty schedule
ActiveScheduled ==
    {j \in JobIds : sync_jobs[j].exists /\ sync_jobs[j].is_active
                    /\ sync_jobs[j].schedule # 0}

\* a first sight that starts from now whatever the job's last_run
FirstNextRunFromNow(j) == CronNext(sync_jobs[j].schedule, now)

\* first sight of a job: croniter(job.schedule, job.last_run or now)
FirstNextRun(j) ==
    CronNext(sync_jobs[j].schedule,
             IF sync_jobs[j].last_run # None THEN sync_jobs[j].last_run ELSE now)

NextRun(j) == IF sched_jobs[j] = None THEN FirstNextRun(j) ELSE sched_jobs[j]

\* the jobs whose `now >= next_run` test passes at this tick
Due == {j \in ActiveScheduled : now >= NextRun(j)}

\* SchedulerService._check_and_run_jobs: one pass over the jobs, no await inside.
\* Nothing is read of last_status: a due job is dispatched whatever its state.
check_and_run_jobs ==
    /\ up
    /\ BagCardinality(tasks) + Cardinality(Due) <= MaxTasks
    /\ \A j \in Due : MayDispatch(j)
    /\ sched_jobs' = [j \in JobIds |->
                        IF j \in Due THEN CronNext(sync_jobs[j].schedule, now)
                        ELSE IF j \in ActiveScheduled THEN NextRun(j)
                        ELSE sched_jobs[j]]
    /\ tasks' = Place(tasks, "sched", Due)
    /\ UNCHANGED <<now, up, sync_jobs, job_logs, service_jobs, notifVars, sshVars, restVars>>

\* ------------------------------------------------------------ API calls
\* SchedulerService.update_job_schedule / remove_job, as the routers call them:
\* on the module singleton scheduler_service, whose loop is never started
update_job_schedule(j, schedule) ==
    [service_jobs EXCEPT ![j] = IF schedule # 0 THEN CronNext(schedule, now) ELSE None]

remove_job(j) == [service_jobs EXCEPT ![j] = None]

\* POST /api/sync-jobs/: the running scheduler's table is not touched, the call
\* goes to the module singleton services.scheduler.scheduler_service
create_sync_job(schedule, retry) ==
    /\ up
    /\ NextJobId \in JobIds
    /\ sync_jobs' = [sync_jobs EXCEPT ![NextJobId] = NewJob(schedule, retry)]
    /\ service_jobs' = IF schedule # 0 THEN update_job_schedule(NextJobId, schedule)
                     ELSE service_jobs
    /\ UNCHANGED <<now, up, job_logs, tasks, sched_jobs, notifVars, sshVars, restVars>>

\* DELETE /api/sync-jobs/{job_id}
delete_sync_job(j) ==
    /\ up
    /\ sync_jobs[j].exists
    /\ sync_jobs' = [sync_jobs EXCEPT ![j] = BlankJob]
    /\ service_jobs' = remove_job(j)
    /\ UNCHANGED <<now, up, job_logs, tasks, sched_jobs, notifVars, sshVars, restVars>>

\* POST /api/sync-jobs/{job_id}/toggle
toggle_sync_job(j) ==
    /\ up
    /\ sync_jobs[j].exists
    /\ sync_jobs' = [sync_jobs EXCEPT ![j].is_active = ~sync_jobs[j].is_active]
    /\ service_jobs' = IF ~sync_jobs[j].is_active
                     THEN update_job_schedule(j, sync_jobs[j].schedule)
                     ELSE remove_job(j)
    /\ UNCHANGED <<now, up, job_logs, tasks, sched_jobs, notifVars, sshVars, restVars>>

\* POST /api/sync-jobs/{job_id}/run: adds the background task, reads no status
run_sync_job(j) ==
    /\ up
    /\ sync_jobs[j].exists
    /\ BagCardinality(tasks) < MaxTasks
    /\ MayDispatch(j)
    /\ tasks' = Place(tasks, "manual", {j})
    /\ UNCHANGED <<now, up, sync_jobs, job_logs, sched_jobs, service_jobs, notifVars, sshVars, restVars>>

\* DELETE /api/logs/cleanup?days=N
cleanup_old_logs(days) ==
    /\ up
    /\ job_logs' = {r \in job_logs : ~(r.started_at < now - days * DayTicks)}
    /\ UNCHANGED <<now, up, sync_jobs, tasks, sched_jobs, service_jobs, notifVars, sshVars, restVars>>

\* ------------------------------------------------------------- a run task
StartedLog(id, j) ==
    [id |-> id, job_id |-> j, status |-> "started", started_at |-> now,
     completed_at |-> None, error |-> "none", attempt_number |-> 1]

\* _execute_job lines 167-221 and execute_sync_job_task lines 89-123, up to the
\* first await: the early return when the job row is gone, else the JobLog row
\* (committed), last_status = 'running' (committed), and the job row loaded
\* again into the session (the values the task computes with afterwards).
execute_job_start(t) ==
    LET j == t.job_id IN
    /\ up
    /\ t.pc = "dispatched"
    /\ IF ~sync_jobs[j].exists
       THEN /\ tasks' = Without(t)
            /\ UNCHANGED <<sync_jobs, job_logs, service_jobs, notifVars, sshVars, restVars>>
       ELSE /\ NextLogId \in LogIds
            /\ job_logs' = job_logs \cup {StartedLog(NextLogId, j)}
            /\ sync_jobs' = [sync_jobs EXCEPT ![j].last_status = "running"]
            /\ tasks' = Replace(t,
                   [pc |-> "syncing", kind |-> t.kind, job_id |-> j,
                    log |-> NextLogId, rc |-> sync_jobs[j].run_count,
                    ec |-> sync_jobs[j].error_count,
                    cf |-> sync_jobs[j].consecutive_failures])
    /\ UNCHANGED <<now, up, sched_jobs, service_jobs, notifVars, sshVars, restVars>>

CloseLog(id, status, err) ==
    {IF r.id = id
     THEN [r EXCEPT !.status = status, !.completed_at = now,
                    !.error = IF err = "keep" THEN r.error ELSE err]
     ELSE r : r \in job_logs}

\* the session's flush updates the rows by primary key; an UPDATE that matches
\* no row raises StaleDataError and the transaction is rolled back
RowsThere(t) == sync_jobs[t.job_id].exists /\ HasLog(t.log)

\* _execute_job lines 223-249: the completion written by a scheduled run
SchedJobDone(t, ok) ==
    [sync_jobs[t.job_id] EXCEPT
        !.last_run = now,
        !.run_count = t.rc + 1,
        !.last_status = IF ok THEN "success" ELSE "failed",
        !.error_count = IF ok THEN @ ELSE t.ec + 1]

\* execute_sync_job_task lines 169-240: the completion written by a manual run
ManualJobDone(t, ok) ==
    [sync_jobs[t.job_id] EXCEPT
        !.last_run = now,
        !.run_count = t.rc + 1,
        !.last_status = IF ok THEN "success" ELSE "failed",
        !.error_count = IF ok THEN @ ELSE t.ec + 1,
        !.consecutive_failures = IF ok THEN 0 ELSE t.cf + 1]

\* execute_sync_job_task lines 259-276: the job row in the exception handler
ManualJobRaised(t) ==
    [sync_jobs[t.job_id] EXCEPT
        !.last_status = "failed",
        !.error_count = t.ec + 1,
        !.consecutive_failures = t.cf + 1]

\* what the notifier call of a run did: every channel sent, a channel failed
\* (an error result), or the call raised
NotifyOutcomes == {"sent", "channel_failed", "raised"}

\* a run task suspended in its notifier call, the completion committed
Notifying(t) ==
    [pc |-> "notifying", kind |-> t.kind, job_id |-> t.job_id, log |-> t.log,
     rc |-> 0, ec |-> 0, cf |-> 0]

\* a notifier call that raised and was not caught where it is made: the run's
\* exception handler would write the log row
AfterUncaughtNotification(rows, t, outcome) ==
    IF outcome = "raised"
    THEN {IF r.id = t.log
          THEN [r EXCEPT !.status = "failed", !.completed_at = now,
                         !.error = "exception"]
          ELSE r : r \in rows}
    ELSE rows

\* the try/except around the notifier call (scheduler.py 253-266, sync_jobs.py
\* 243-256): the rows stay as committed whatever the call did
AfterNotification(rows, t, outcome) == rows

\* _execute_job from the return of run_sync to the await of the notifier call
\* (ok: result["success"])
execute_job_finish(t, ok) ==
    LET j == t.job_id IN
    /\ up
    /\ t.pc = "syncing"
    /\ t.kind = "sched"
    /\ IF RowsThere(t)
       THEN /\ sync_jobs' = [sync_jobs EXCEPT ![j] = SchedJobDone(t, ok)]
            /\ job_logs' = CloseLog(t.log, IF ok THEN "success" ELSE "failed",
                                    IF ok THEN "keep" ELSE "stderr")
            /\ tasks' = Replace(t, Notifying(t))
       ELSE \* commit raised: the except branch closes the log row if it is there
            /\ job_logs' = CloseLog(t.log, "failed", "exception")
            /\ tasks' = Without(t)
            /\ UNCHANGED sync_jobs
    /\ UNCHANGED <<now, up, sched_jobs, service_jobs, notifVars, sshVars, restVars>>

\* _execute_job: notification_service.send_job_notification returns or raises
notification_returns(t, outcome) ==
    /\ up
    /\ t.pc = "notifying"
    /\ job_logs' = AfterNotification(job_logs, t, outcome)
    /\ tasks' = Without(t)
    /\ UNCHANGED sync_jobs
    /\ UNCHANGED <<now, up, sched_jobs, service_jobs, notifVars, sshVars, restVars>>

\* _execute_job when run_sync raises: lines 268-274 touch the log row only
execute_job_raise(t) ==
    /\ up
    /\ t.pc = "syncing"
    /\ t.kind = "sched"
    /\ job_logs' = CloseLog(t.log, "failed", "exception")
    /\ tasks' = Without(t)
    /\ UNCHANGED <<now, up, sync_jobs, sched_jobs, service_jobs, notifVars, sshVars, restVars>>

\* execute_sync_job_task from the return of run_sync to the end; the e-mail
\* call send_job_email_notification awaits nothing (outcome: what it did)
execute_sync_job_task_done(t, ok, outcome) ==
    LET j == t.job_id IN
    /\ up
    /\ t.pc = "syncing"
    /\ t.kind = "manual"
    /\ IF RowsThere(t)
       THEN /\ sync_jobs' = [sync_jobs EXCEPT ![j] = ManualJobDone(t, ok)]
            /\ job_logs' = AfterNotification(
                               CloseLog(t.log, IF ok THEN "success" ELSE "failed",
                                        IF ok THEN "keep" ELSE "stderr"),
                               t, outcome)
       ELSE \* commit raised; the handler's own commit raises again and is swallowed
            UNCHANGED <<sync_jobs, job_logs, service_jobs, notifVars, sshVars, restVars>>
    /\ tasks' = Without(t)
    /\ UNCHANGED <<now, up, sched_jobs, service_jobs, notifVars, sshVars, restVars>>

execute_sync_job_task_finish(t, ok) ==
    \E outcome \in NotifyOutcomes : execute_sync_job_task_done(t, ok, outcome)

\* execute_sync_job_task when run_sync raises: lines 259-276
execute_sync_job_task_raise(t) ==
    LET j == t.job_id IN
    /\ up
    /\ t.pc = "syncing"
    /\ t.kind = "manual"
    /\ IF RowsThere(t)
       THEN /\ sync_jobs' = [sync_jobs EXCEPT ![j] = ManualJobRaised(t)]
            /\ job_logs' = CloseLog(t.log, "failed", "exception")
       ELSE UNCHANGED <<sync_jobs, job_logs, service_jobs, notifVars, sshVars, restVars>>
    /\ tasks' = Without(t)
    /\ UNCHANGED <<now, up, sched_jobs, service_jobs, notifVars, sshVars, restVars>>

\* ------------------------------------------------------------ the process
\* the process is killed: tasks and the scheduler's table are memory, the
\* tables stay as they are
Kill ==
    /\ up
    /\ up' = FALSE
    /\ tasks' = EmptyBag
    /\ sched_jobs' = [j \in JobIds |-> None]
    /\ service_jobs' = [j \in JobIds |-> None]
    /\ UNCHANGED <<now, sync_jobs, job_logs, notifVars, sshVars, restVars>>

\* main.lifespan and SchedulerService.start: tables created if missing, default
\* configuration seeded, the loop task created.  No row of job_logs or sync_jobs
\* is read or written.
start ==
    /\ ~up
    /\ up' = TRUE
    /\ UNCHANGED <<now, sync_jobs, job_logs, tasks, sched_jobs, service_jobs, notifVars, sshVars, restVars>>

Next ==
    \/ Tick
    \/ check_and_run_jobs
    \/ \E s \in Schedules, r \in BOOLEAN : create_sync_job(s, r)
    \/ \E j \in JobIds : delete_sync_job(j)
    \/ \E j \in JobIds : toggle_sync_job(j)
    \/ \E j \in JobIds : run_sync_job(j)
    \/ \E d \in CleanupDays : cleanup_old_logs(d)
    \/ \E t \in Running : execute_job_start(t)
    \/ \E t \in Running, ok \in BOOLEAN : execute_job_finish(t, ok)
    \/ \E t \in Running, o \in NotifyOutcomes : notification_returns(t, o)
    \/ \E t \in Running : execute_job_raise(t)
    \/ \E t \in Running, ok \in BOOLEAN : execute_sync_job_task_finish(t, ok)
    \/ \E t \in Running : execute_sync_job_task_raise(t)
    \/ Kill
    \/ start

Spec == Init /\ [][Next]_vars

\* ============================================================ the notifier
\* services/notification_service.py.  send_job_notification runs on the event
\* loop: from its entry to the first await that suspends (the POST of
\* _send_webhook or of _send_telegram) it is one atomic step, and so is each
\* stretch between two such awaits.
\* A clock unit is half a day and a POST ends within its timeout of 15 seconds:
\* no call stays suspended from one unit to the next.
NotifierTick ==
    /\ clock < MaxClock
    /\ calls = EmptyBag
    /\ clock' = clock + 1
    /\ UNCHANGED <<notification_config, config_cache, last_config_load,
                   daily_job_notifications, calls, sent, returned, epoch>>
    /\ UNCHANGED <<coreVars, sshVars, restVars>>

\* routers/settings.py update_notification_config
update_notification_config(update) ==
    /\ notification_config' = update
    /\ UNCHANGED <<clock, config_cache, last_config_load,
                   daily_job_notifications, calls, sent, returned, epoch>>
    /\ UNCHANGED <<coreVars, sshVars, restVars>>

\* timedelta.seconds: the seconds of a non-negative timedelta, its days left out
Seconds(delta) == delta % NDayTicks

\* _load_config: the cached row is used when it is set and recent
CacheIsRecent ==
    /\ config_cache.exists
    /\ last_config_load # None
    /\ Seconds(clock - last_config_load) < ConfigCacheTicks

LoadedConfig == IF CacheIsRecent THEN config_cache ELSE notification_config

load_config ==
    /\ config_cache' = LoadedConfig
    /\ last_config_load' = IF CacheIsRecent THEN last_config_load ELSE clock

\* datetime.date()
DateOf(t) == t \div NDayTicks

ShouldNotify(config, status) ==
    \/ status = "success" /\ config.notify_on_success
    \/ status = "failed" /\ config.notify_on_failure

\* a daily limit that compares the instants where the code compares the dates
DailyLimitSameInstant(j, status, scheduled) ==
    /\ scheduled /\ status = "success"
    /\ daily_job_notifications[j] = clock

\* the daily limit applies: a scheduled success of a job already notified today
DailyLimitReached(j, status, scheduled) ==
    /\ scheduled /\ status = "success"
    /\ daily_job_notifications[j] # None
    /\ DateOf(daily_job_notifications[j]) = DateOf(clock)

\* _cleanup_old_notifications applied to the map m
cleanup_old_notifications(m) ==
    [k \in NotifiedJobs |->
        IF m[k] # None /\ m[k] < clock - CleanupAfterDays * NDayTicks
        THEN None ELSE m[k]]

\* one more notification for the outcomes handed over on day d
Counted(count, d) ==
    IF count.day = d
    THEN [count EXCEPT !.n = @ + 1, !.since_start = @ + 1]
    ELSE [day |-> d, n |-> 1, since_start |-> 1]

\* call c sends on the channels chans; the notifications of scheduled
\* successes are counted in `sent`, under the day of the hand-over
Emitted(c, chans) ==
    IF c.is_scheduled /\ c.status = "success"
    THEN [sent EXCEPT ![c.job_id] =
            [ch \in Channels |->
                IF ch \in chans THEN Counted(sent[c.job_id][ch], DateOf(c.at))
                ELSE sent[c.job_id][ch]]]
    ELSE sent

\* the awaits still ahead of a call that did the channels in `done`
Ahead(c, done) == (EnabledChannels(c.config) \ done) \ {"email"}

\* a call goes on after the channels in `done`: it suspends in the next POST
\* or returns its results
Proceed(old, c, done) ==
    IF Ahead(c, done) = {}
    THEN /\ calls' = old
         /\ returned' = Result(c.job_id, c.status, c.is_scheduled, "sent", done)
    ELSE /\ calls' = old (+) SetToBag({[c EXCEPT !.channels = done,
                !.pc = IF "webhook" \in Ahead(c, done) THEN "webhook" ELSE "telegram"]})
         /\ UNCHANGED returned

\* a send_job_notification that updates the daily tracking before it looks
\* at the configuration
send_job_notification_slot_first(j, status, scheduled) ==
    LET config == LoadedConfig
        c == [job_id |-> j, status |-> status, is_scheduled |-> scheduled,
              at |-> clock, config |-> config, channels |-> {}, pc |-> "entry"]
        email == EnabledChannels(config) \cap {"email"}
        slot == IF scheduled /\ status = "success"
                THEN cleanup_old_notifications(
                        [daily_job_notifications EXCEPT ![j] = clock])
                ELSE daily_job_notifications
    IN
    /\ BagCardinality(calls) < MaxCalls
    /\ load_config
    /\ IF DailyLimitReached(j, status, scheduled)
       THEN /\ returned' = Result(j, status, scheduled, "daily_limit_reached", {})
            /\ UNCHANGED <<daily_job_notifications, calls, sent>>
       ELSE /\ daily_job_notifications' = slot
            /\ IF ~config.exists
               THEN /\ returned' = Result(j, status, scheduled, "not_configured", {})
                    /\ UNCHANGED <<calls, sent>>
               ELSE IF ~ShouldNotify(config, status)
               THEN /\ returned' = Result(j, status, scheduled, "notify_disabled", {})
                    /\ UNCHANGED <<calls, sent>>
               ELSE /\ sent' = Emitted(c, email)
                    /\ Proceed(calls, c, email)
    /\ UNCHANGED <<clock, notification_config, epoch>>
    /\ UNCHANGED <<coreVars, sshVars, restVars>>

\* send_job_notification, from its entry to its first suspension
send_job_notification(j, status, scheduled) ==
    LET config == LoadedConfig
        c == [job_id |-> j, status |-> status, is_scheduled |-> scheduled,
              at |-> clock, config |-> config, channels |-> {}, pc |-> "entry"]
        email == EnabledChannels(config) \cap {"email"}
    IN
    /\ BagCardinality(calls) < MaxCalls
    /\ load_config
    /\ IF ~config.exists
       THEN /\ returned' = Result(j, status, scheduled, "not_configured", {})
            /\ UNCHANGED <<daily_job_notifications, calls, sent>>
       ELSE IF ~ShouldNotify(config, status)
       THEN /\ returned' = Result(j, status, scheduled, "notify_disabled", {})
            /\ UNCHANGED <<daily_job_notifications, calls, sent>>
       ELSE IF DailyLimitReached(j, status, scheduled)
       THEN /\ returned' = Result(j, status, scheduled, "daily_limit_reached", {})
            /\ UNCHANGED <<daily_job_notifications, calls, sent>>
       ELSE /\ daily_job_notifications' =
                  IF scheduled /\ status = "success"
                  THEN cleanup_old_notifications(
                          [daily_job_notifications EXCEPT ![j] = clock])
                  ELSE daily_job_notifications
            /\ sent' = Emitted(c, email)
            /\ Proceed(calls, c, email)
    /\ UNCHANGED <<clock, notification_config, epoch>>
    /\ UNCHANGED <<coreVars, sshVars, restVars>>

\* the POST of _send_webhook is over: the call goes on to Telegram or returns
send_webhook(c) ==
    /\ c.pc = "webhook"
    /\ sent' = Emitted(c, {"webhook"})
    /\ Proceed(calls (-) SetToBag({c}), c, c.channels \cup {"webhook"})
    /\ UNCHANGED <<clock, notification_config, config_cache, last_config_load,
                   daily_job_notifications, epoch>>
    /\ UNCHANGED <<coreVars, sshVars, restVars>>

\* the POST of _send_telegram is over: the call returns
send_telegram(c) ==
    /\ c.pc = "telegram"
    /\ sent' = Emitted(c, {"telegram"})
    /\ Proceed(calls (-) SetToBag({c}), c, c.channels \cup {"telegram"})
    /\ UNCHANGED <<clock, notification_config, config_cache, last_config_load,
                   daily_job_notifications, epoch>>
    /\ UNCHANGED <<coreVars, sshVars, restVars>>

\* the process is stopped and started again: NotificationService.__init__ runs
\* anew, the suspended calls are gone, the database is as it was
restart_notifier ==
    /\ epoch < MaxRestarts
    /\ epoch' = epoch + 1
    /\ config_cache' = NoConfig
    /\ last_config_load' = None
    /\ daily_job_notifications' = [j \in NotifiedJobs |-> None]
    /\ calls' = EmptyBag
    /\ sent' = [j \in NotifiedJobs |-> [ch \in Channels |->
                    [sent[j][ch] EXCEPT !.since_start = 0]]]
    /\ UNCHANGED <<clock, notification_config, returned>>
    /\ UNCHANGED <<coreVars, sshVars, restVars>>

NextNotifier ==
    \/ NotifierTick
    \/ \E update \in ConfigUpdates : update_notification_config(update)
    \/ \E j \in NotifiedJobs, status \in Outcomes, scheduled \in IsScheduled :
          send_job_notification(j, status, scheduled)
    \/ \E c \in BagToSet(calls) : send_webhook(c)
    \/ \E c \in BagToSet(calls) : send_telegram(c)
    \/ restart_notifier

SpecNotifier == Init /\ [][NextNotifier]_vars

TypeOKNotifier ==
    /\ clock \in 0..MaxClock
    /\ epoch \in 0..MaxRestarts
    /\ IsABag(calls) /\ BagCardinality(calls) <= MaxCalls
    /\ DOMAIN sent = NotifiedJobs
    /\ returned.channels \subseteq Channels

\* ========================================================= the SSH layer
\* services/ssh_service.py.  execute hands _execute to the default thread pool
\* (loop.run_in_executor(None, ...)), so several _execute run in parallel;
\* nothing in SSHService takes a lock.  A step of a thread is one access to
\* _connections or one blocking call into paramiko.
Moved(t, u) == (threads (-) SetToBag({t})) (+) SetToBag({u})
Returned(t) == threads (-) SetToBag({t})

\* execute: _execute is submitted for the key of (username, hostname, port)
execute(k) ==
    /\ BagCardinality(threads) < MaxThreads
    /\ threads' = threads (+) SetToBag({[key |-> k, pc |-> "get_client",
                                         client |-> NoClient]})
    /\ UNCHANGED <<connections, transports, clients>>
    /\ UNCHANGED <<coreVars, notifVars, restVars>>

\* _get_client: the look-up of the key and the test of the transport
get_client(t) ==
    /\ t.pc = "get_client"
    /\ threads' = Moved(t,
          IF connections[t.key] = NoClient THEN [t EXCEPT !.pc = "connect"]
          ELSE IF connections[t.key] \in transports
               THEN [t EXCEPT !.pc = "exec_command", !.client = connections[t.key]]
               ELSE [t EXCEPT !.pc = "del"])
    /\ UNCHANGED <<connections, transports, clients>>
    /\ UNCHANGED <<coreVars, notifVars, restVars>>

\* _get_client: del self._connections[key]; a KeyError (the entry is gone
\* already) is caught by _execute, which returns exit_code -1
get_client_del(t) ==
    /\ t.pc = "del"
    /\ IF connections[t.key] = NoClient
       THEN /\ threads' = Returned(t)
            /\ UNCHANGED connections
       ELSE /\ connections' = [connections EXCEPT ![t.key] = NoClient]
            /\ threads' = Moved(t, [t EXCEPT !.pc = "connect"])
    /\ UNCHANGED <<transports, clients>>
    /\ UNCHANGED <<coreVars, notifVars, restVars>>

\* _get_client: client.connect(...) succeeds or raises
get_client_connect(t, ok) ==
    /\ t.pc = "connect"
    /\ IF ok
       THEN /\ clients < MaxClients
            /\ clients' = clients + 1
            /\ transports' = transports \cup {clients + 1}
            /\ threads' = Moved(t, [t EXCEPT !.pc = "store", !.client = clients + 1])
       ELSE /\ threads' = Returned(t)
            /\ UNCHANGED <<transports, clients>>
    /\ UNCHANGED connections
    /\ UNCHANGED <<coreVars, notifVars, restVars>>

\* _get_client: self._connections[key] = client
get_client_store(t) ==
    /\ t.pc = "store"
    /\ connections' = [connections EXCEPT ![t.key] = t.client]
    /\ threads' = Moved(t, [t EXCEPT !.pc = "exec_command"])
    /\ UNCHANGED <<transports, clients>>
    /\ UNCHANGED <<coreVars, notifVars, restVars>>

\* _execute: client.exec_command(command) opens a session on the transport and
\* starts the command; on a dead transport it raises and _execute returns -1
exec_command(t) ==
    /\ t.pc = "exec_command"
    /\ threads' = IF t.client \in transports
                  THEN Moved(t, [t EXCEPT !.pc = "recv_exit_status"])
                  ELSE Returned(t)
    /\ UNCHANGED <<connections, transports, clients>>
    /\ UNCHANGED <<coreVars, notifVars, restVars>>

\* _execute: recv_exit_status() returns (the command ended or the transport
\* closed) and _execute returns its SSHResult
recv_exit_status(t) ==
    /\ t.pc = "recv_exit_status"
    /\ threads' = Returned(t)
    /\ UNCHANGED <<connections, transports, clients>>
    /\ UNCHANGED <<coreVars, notifVars, restVars>>

\* the network or the remote host closes the connection of client cl
transport_closes(cl) ==
    /\ cl \in transports
    /\ transports' = transports \ {cl}
    /\ UNCHANGED <<connections, threads, clients>>
    /\ UNCHANGED <<coreVars, notifVars, restVars>>

NextSSH ==
    \/ \E k \in Keys : execute(k)
    \/ \E t \in BagToSet(threads) : get_client(t)
    \/ \E t \in BagToSet(threads) : get_client_del(t)
    \/ \E t \in BagToSet(threads), ok \in BOOLEAN : get_client_connect(t, ok)
    \/ \E t \in BagToSet(threads) : get_client_store(t)
    \/ \E t \in BagToSet(threads) : exec_command(t)
    \/ \E t \in BagToSet(threads) : recv_exit_status(t)
    \/ \E cl \in 1..MaxClients : transport_closes(cl)

SpecSSH == Init /\ [][NextSSH]_vars

\* the commands in flight on key k: issued by exec_command, not yet returned
InFlight(k) ==
    BagCardinality([t \in {u \in BagToSet(threads) :
                              u.key = k /\ u.pc = "recv_exit_status"}
                        |-> CopiesIn(t, threads)])

TypeOKSSH ==
    /\ \A k \in Keys : connections[k] \in 0..MaxClients
    /\ transports \subseteq 1..MaxClients
    /\ IsABag(threads) /\ BagCardinality(threads) <= MaxThreads
    /\ clients \in 0..MaxClients

\* ================================================================ claims
\* the rows of job j / the tasks of job j
RowsOf(j) == {r \in job_logs : r.job_id = j}
TasksOf(j) == {t \in Running : t.job_id = j}
Closed(r) == r.status \in {"success", "failed"} /\ r.completed_at # None
                /\ r.completed_at >= r.started_at

\* task t returns in this step (the process stays up)
Ends(t) ==
    /\ up'
    /\ BagCardinality(tasks') < BagCardinality(tasks)
    /\ CopiesIn(t, tasks') < CopiesIn(t, tasks)

\* task t is the only task of its job, and its job row and log row are in place
Alone(t) == /\ t.pc = "syncing"
            /\ CopiesIn(t, tasks) = 1
            /\ TasksOf(t.job_id) = {t}
            /\ RowsThere(t)

\* C1: for every Job, at no instant do two JobLog rows of that Job have
\* status 'started'.
C1_NoTwoStartedRows ==
    \A j \in JobIds :
        Cardinality({r \in RowsOf(j) : r.status = "started"}) <= 1

\* C2: every dispatched run that ends (the process kept running) leaves its
\* JobLog row in status success or failed with completed_at >= started_at.
C2_EndedRunHasClosedRow ==
    [][\A t \in Running :
         Ends(t) => \E r \in job_logs' : r.id = t.log /\ r.job_id = t.job_id
                                          /\ Closed(r)]_vars

\* C3: when an exception is raised in a run after its JobLog was opened, the
\* run ends with that row failed, completed_at set and the error text
\* populated, and the Job's last_status no longer 'running' (scheduled and
\* manual runs alike).
C3_ExceptionClosesLogAndClearsRunning ==
    [][\A t \in Running :
         (Alone(t) /\ (execute_job_raise(t) \/ execute_sync_job_task_raise(t)))
         => /\ \E r \in job_logs' : r.id = t.log /\ r.status = "failed"
                                     /\ r.completed_at # None
                                     /\ r.error = "exception"
            /\ sync_jobs'[t.job_id].last_status # "running"]_vars

\* C4: when the scheduler starts after the process was killed, every JobLog
\* row still 'started' and older than the stale-threshold is rewritten to
\* failed and no Job is left with last_status 'running'.
C4_StartSweepsStaleRuns ==
    [][(~up /\ up')
         => /\ \A r \in job_logs' :
                 ~(r.status = "started" /\ r.started_at + StaleThreshold <= now')
            /\ \A j \in JobIds :
                 (\E r \in RowsOf(j) : r.status = "started"
                                       /\ r.started_at + StaleThreshold <= now)
                 => sync_jobs'[j].last_status # "running"]_vars

\* C5: after a run ends failed, a one-shot retry is armed in the next-fire
\* table for retry_delay_minutes later if (and only if) the Job has
\* retry_on_failure set and consecutive_failures < max_retries.
RetryWanted(job) ==
    job.retry_on_failure /\ job.consecutive_failures < DefaultMaxRetries

C5_FailedRunArmsRetry ==
    [][\A t \in Running :
         (Alone(t) /\ (execute_job_finish(t, FALSE)
                       \/ execute_sync_job_task_finish(t, FALSE)))
         => (RetryWanted(sync_jobs'[t.job_id])
             <=> sched_jobs'[t.job_id] = now + DefaultRetryDelay)]_vars

\* C6: each failed run increases consecutive_failures by one and each
\* successful run resets it to zero, whether the run was scheduled or manual.
C6_ConsecutiveFailuresFollowRuns ==
    [][\A t \in Running :
         Alone(t) =>
           /\ (execute_job_finish(t, FALSE) \/ execute_sync_job_task_finish(t, FALSE))
                => sync_jobs'[t.job_id].consecutive_failures
                     = sync_jobs[t.job_id].consecutive_failures + 1
           /\ (execute_job_finish(t, TRUE) \/ execute_sync_job_task_finish(t, TRUE))
                => sync_jobs'[t.job_id].consecutive_failures = 0]_vars

\* C7: whenever no run of the Job is in flight, run_count is the number of
\* JobLog rows of the Job and error_count the number of its failed rows.
C7_CountersMatchRows ==
    \A j \in JobIds :
        (sync_jobs[j].exists /\ TasksOf(j) = {})
        => /\ sync_jobs[j].run_count = Cardinality(RowsOf(j))
           /\ sync_jobs[j].error_count
                = Cardinality({r \in RowsOf(j) : r.status = "failed"})

StoredAsksFor(status) ==
    /\ notification_config.exists
    /\ ShouldNotify(notification_config, status)

\* the notifier read the configuration a cache period ago or more, or never
CachePeriodOver ==
    \/ last_config_load = None
    \/ clock - last_config_load >= ConfigCacheTicks

\* the failed outcome of job j goes to the channels chans: the call returned
\* having sent on them, or is suspended on its way through them
FannedOut(j, chans) ==
    \/ returned = Result(j, "failed", TRUE, "sent", chans)
    \/ \E c \in BagToSet(calls) :
          c.job_id = j /\ c.status = "failed" /\ EnabledChannels(c.config) = chans

\* C9: a failed outcome handed over while notify-on-failure is enabled is
\* fanned out to every enabled channel, whatever was notified for the job that
\* day.  Checked for the hand-overs that come a cache period or more after the
\* notifier last read the configuration, so that the 60 seconds for which the
\* notifier means to keep a copy do not count against the claim.
C9_FailureFannedOut ==
    [][\A j \in NotifiedJobs :
          (/\ send_job_notification(j, "failed", TRUE)
           /\ StoredAsksFor("failed")
           /\ CachePeriodOver)
          => FannedOut(j, EnabledChannels(notification_config))']_vars

\* --------------------------------------------------------------------- ssh
\* C10: for every key user@host:port at most one command is in flight: a
\* second call for the key starts its command after the first has returned.
C10_OneCommandPerKey ==
    \A k \in Keys : InFlight(k) <= 1

\* the pool holds a live client for key k
PoolHoldsLive(k) == connections[k] # NoClient /\ connections[k] \in transports

\* C11: at most one channel per key: a call connects a new client only when
\* the pool holds no live client for its key, also when two calls for the key
\* run at the same time.
C11_ConnectOnlyWithoutLiveChannel ==
    [][\A t \in BagToSet(threads) :
          get_client_connect(t, TRUE) => ~PoolHoldsLive(t.key)]_vars

\* ---------------------------------------------------------- scheduler, API
\* C12: after a job is removed or deactivated through the API, the next-run
\* table read by the running loop has no entry for it.
C12_RemovedJobLeavesNextFireTable ==
    [][\A j \in JobIds :
          (delete_sync_job(j) \/ (toggle_sync_job(j) /\ ~sync_jobs'[j].is_active))
          => sched_jobs'[j] = None]_vars

\* o is an occurrence of the cron expression p
Occurs(p, o) == p # 0 /\ o % p = 0

\* an occurrence of job j's schedule lies after r and not after now
OccurredSince(j, r) ==
    \E o \in Times : Occurs(sync_jobs[j].schedule, o) /\ r < o /\ o <= now

\* this step creates exactly one scheduled run of job j
DispatchedOnce(j) ==
    CopiesIn(Dispatched("sched", j), tasks')
        = CopiesIn(Dispatched("sched", j), tasks) + 1

\* after this step the next run of job j is the first occurrence after now
NextFireIsFirstAfterNow(j) ==
    /\ sched_jobs'[j] > now
    /\ Occurs(sync_jobs[j].schedule, sched_jobs'[j])
    /\ \A o \in Times : (now < o /\ o < sched_jobs'[j])
                            => ~Occurs(sync_jobs[j].schedule, o)

\* occurrences of job j were missed: its next run in the table is due, or the
\* table has no entry (the process started again) and an occurrence passed
\* since the last run ended
MissedAfterLastRun(j) ==
    IF sched_jobs[j] # None THEN sched_jobs[j] <= now
    ELSE sync_jobs[j].last_run # None /\ OccurredSince(j, sync_jobs[j].last_run)

\* the same, or job j never ran, has no run recorded or in flight, and the
\* first occurrence after it was created or activated (which the API noted in
\* the scheduler_service table) has passed
Missed(j) ==
    \/ MissedAfterLastRun(j)
    \/ /\ sched_jobs[j] = None /\ sync_jobs[j].last_run = None
       /\ RowsOf(j) = {} /\ TasksOf(j) = {}
       /\ service_jobs[j] # None /\ service_jobs[j] <= now

JobGoneOrInactive(j) == ~sync_jobs[j].exists \/ ~sync_jobs[j].is_active

\* after this step the JobLog row of run task t records the outcome ok
LogRecords(t, ok) ==
    \E r \in job_logs' :
        /\ r.id = t.log
        /\ r.status = (IF ok THEN "success" ELSE "failed")
        /\ r.completed_at # None

\* C14: a run in flight when its job is removed or deactivated completes and its
\* JobLog row ends success/failed as the sync ended, and the tick loop
\* dispatches no run of a job that is removed or inactive.
C14_InFlightRunOutlivesItsJob ==
    [][/\ \A t \in BagToSet(tasks) : \A ok \in BOOLEAN :
             ( /\ t.pc = "syncing" /\ HasLog(t.log)
               /\ JobGoneOrInactive(t.job_id)
               /\ (execute_job_finish(t, ok) \/ execute_sync_job_task_finish(t, ok)) )
             => LogRecords(t, ok)
       /\ \A j \in JobIds :
             (JobGoneOrInactive(j) /\ check_and_run_jobs)
             => CopiesIn(Dispatched("sched", j), tasks')
                    <= CopiesIn(Dispatched("sched", j), tasks)]_vars

\* ================================================================ the digest
notDigest == <<coreVars, notifVars, sshVars, pveVars, nodeVars, refVars, sanoidVars, execVars, syncoidVars, cronVars, regrunVars, loopVars, accessVars>>

\* asyncio.sleep(60) of the loop ends; time passes whether the process runs or not
DigestTick ==
    /\ utcnow < MaxUtc
    /\ utcnow' = utcnow + 1
    /\ loop_pc' = IF running THEN "check" ELSE loop_pc
    /\ UNCHANGED <<running, system_config, daily_summary_hour,
                   daily_summary_enabled, last_daily_summary, summary_calls>>
    /\ UNCHANGED notDigest

\* PUT /api/settings/system/{key}: the row only, the scheduler is not told
update_system_config(key, value) ==
    /\ running
    /\ system_config' = [system_config EXCEPT ![key] = value]
    /\ UNCHANGED <<utcnow, running, loop_pc, daily_summary_hour,
                   daily_summary_enabled, last_daily_summary, summary_calls>>
    /\ UNCHANGED notDigest

\* _load_daily_summary_config: the hour is kept when the row is missing, the
\* switch is on unless the row says otherwise
LoadedHour ==
    IF system_config.hour # None THEN system_config.hour ELSE daily_summary_hour

LoadedEnabled == system_config.enabled # "false"

AlreadySentToday ==
    /\ last_daily_summary # None
    /\ DateOfUtc(last_daily_summary) = DateOfUtc(utcnow)

\* one round of _scheduler_loop: _check_daily_summary with the awaited call of
\* notification_service.send_daily_summary() (outcome: what the call did)
check_daily_summary(outcome) ==
    /\ running
    /\ loop_pc = "check"
    /\ loop_pc' = "sleep"
    /\ IF \/ ~daily_summary_enabled
          \/ HourOf(utcnow) # daily_summary_hour
          \/ AlreadySentToday
       THEN UNCHANGED <<daily_summary_hour, daily_summary_enabled,
                        last_daily_summary, summary_calls>>
       ELSE /\ daily_summary_hour' = LoadedHour
            /\ daily_summary_enabled' = LoadedEnabled
            /\ IF ~LoadedEnabled
               THEN UNCHANGED <<last_daily_summary, summary_calls>>
               ELSE /\ summary_calls[DateOfUtc(utcnow)] < MaxSummaryCalls
                    /\ summary_calls' =
                           [summary_calls EXCEPT ![DateOfUtc(utcnow)] = @ + 1]
                    /\ last_daily_summary' =
                           IF outcome = "raised" THEN last_daily_summary
                           ELSE utcnow
    /\ UNCHANGED <<utcnow, running, system_config>>
    /\ UNCHANGED notDigest

SummaryOutcomes == {"sent", "nothing_to_send", "channel_error", "raised"}

\* the process ends: the scheduler object and its fields are memory
KillDigest ==
    /\ running
    /\ running' = FALSE
    /\ UNCHANGED <<utcnow, loop_pc, system_config, daily_summary_hour,
                   daily_summary_enabled, last_daily_summary, summary_calls>>
    /\ UNCHANGED notDigest

\* main.py: SchedulerService() and start(), which loads the digest settings
startDigest ==
    /\ ~running
    /\ running' = TRUE
    /\ loop_pc' = "check"
    /\ last_daily_summary' = None
    /\ daily_summary_hour' =
           IF system_config.hour # None THEN system_config.hour
           ELSE DefaultSummaryHour
    /\ daily_summary_enabled' = LoadedEnabled
    /\ UNCHANGED <<utcnow, system_config, summary_calls>>
    /\ UNCHANGED notDigest

NextDigest ==
    \/ DigestTick
    \/ \E h \in SummaryHours : update_system_config("hour", h)
    \/ \E e \in {"true", "false"} : update_system_config("enabled", e)
    \/ \E o \in SummaryOutcomes : check_daily_summary(o)
    \/ KillDigest
    \/ startDigest

SpecDigest == Init /\ [][NextDigest]_vars

TypeOKDigest ==
    /\ utcnow \in 0..MaxUtc
    /\ running \in BOOLEAN
    /\ loop_pc \in {"check", "sleep"}
    /\ system_config.hour \in SummaryHours \cup {None}
    /\ system_config.enabled \in {"true", "false", Unset}
    /\ daily_summary_hour \in SummaryHours
    /\ daily_summary_enabled \in BOOLEAN
    /\ last_daily_summary \in 0..MaxUtc \cup {None}
    /\ summary_calls \in [Days -> 0..MaxSummaryCalls]

\* C15: the daily digest is called at most once per UTC day, whatever the
\* earlier call of the day did (sent, nothing to send, channel error, exception).
C15_DigestOncePerDay == \A d \in Days : summary_calls[d] <= 1

\* after this step the job row of run task t records the outcome ok
JobRecords(t, ok) ==
    LET job == sync_jobs'[t.job_id] IN
    /\ job.last_status = (IF ok THEN "success" ELSE "failed")
    /\ job.last_run = now
    /\ job.run_count = t.rc + 1
    /\ job.error_count = (IF ok THEN sync_jobs[t.job_id].error_count ELSE t.ec + 1)

\* C16: what the Notifier does never changes a run's outcome: the completion is
\* committed before the Notifier is called, and the JobLog row and the job's
\* last_status and counters are the same whether the channels succeed, fail or
\* the call raises.
C16_NotifierLeavesOutcomeAlone ==
    [][\A t \in BagToSet(tasks) :
          /\ (t.pc = "syncing" /\ t.kind = "sched" /\ RowsThere(t)
                /\ tasks' # tasks)
             => \A ok \in BOOLEAN :
                    execute_job_finish(t, ok)
                    => /\ LogRecords(t, ok) /\ JobRecords(t, ok)
                       /\ CopiesIn(Notifying(t), tasks')
                              > CopiesIn(Notifying(t), tasks)
          /\ t.pc = "notifying"
             => \A n \in NotifyOutcomes :
                    notification_returns(t, n) => UNCHANGED <<sync_jobs, job_logs>>
          /\ (t.pc = "syncing" /\ t.kind = "manual" /\ tasks' = Without(t))
             => \A ok \in BOOLEAN : \A n \in NotifyOutcomes :
                    execute_sync_job_task_done(t, ok, n)
                    => execute_sync_job_task_done(t, ok, "sent")]_vars

\* C16's case: a scheduled run waits for its notifier call, its JobLog row and
\* its job row already hold the outcome
C16_CommittedBeforeNotifier ==
    \E t \in BagToSet(tasks) :
        /\ t.pc = "notifying"
        /\ \E r \in job_logs : r.id = t.log /\ Closed(r)
        /\ sync_jobs[t.job_id].last_status \in {"success", "failed"}

\* ============================================== registration of a guest
\* services/proxmox_service.py register_vm and its callers.  Every SSH command
\* is an await; ok is SSHResult.success as far as the connection goes (FALSE:
\* the command did not run, ssh_service.execute caught the exception)
notPve == <<coreVars, notifVars, sshVars, digestVars, nodeVars, refVars, sanoidVars, execVars, syncoidVars, cronVars, regrunVars, loopVars, accessVars>>

\* str.replace(old, new): every occurrence, left to right
RECURSIVE StrReplace(_, _, _)
StrReplace(text, old, new) ==
    IF Len(text) < Len(old) THEN text
    ELSE IF SubSeq(text, 1, Len(old)) = old
         THEN new \o StrReplace(SubSeq(text, Len(old) + 1, Len(text)), old, new)
         ELSE <<Head(text)>> \o StrReplace(Tail(text), old, new)

\* SchedulerService._adapt_vm_config: "per ora ritorniamo la config cosi' com'e'"
adapt_vm_config(config, job) == config

\* qm status V || pct status V succeeds when V is a VM or a container
GuestExists(v) == \E k \in VmTypes : dest_conf[v][k] # NoText

\* the manual run and the API register the guest under dest_vm_id when set
TargetVmId(job) == IF job.dest_vm_id # None THEN job.dest_vm_id ELSE job.vm_id

\* POST /api/sync-jobs/vm-replica: the job for a guest of the source node, which
\* has the config text; the destination holds no guest, or one guest (a VM or
\* a container) under one of the two ids
create_vm_replica_jobs(job, text, held) ==
    /\ source_conf = NoText
    /\ pve_job' = job
    /\ source_conf' = text
    /\ dest_conf' = [v \in VmIds |-> [k \in VmTypes |->
                         IF <<v, k>> \in held THEN OldConfig ELSE NoText]]
    /\ UNCHANGED regs
    /\ UNCHANGED notPve

\* a successful run reads the guest's config on the source and calls
\* register_vm: _register_vm_after_sync (scheduled), execute_sync_job_task
\* (manual)
register_vm_after_sync(r, ok) ==
    /\ source_conf # NoText
    /\ regs[r].pc = "idle"
    /\ regs' = [regs EXCEPT ![r] =
          IF ok
          THEN [pc |-> "check", caller |-> "sched", vmid |-> pve_job.vm_id,
                content |-> adapt_vm_config(source_conf, pve_job),
                source_storage |-> NoText, dest_storage |-> NoText,
                existed |-> GuestExists(pve_job.vm_id), result |-> "none"]
          ELSE [IdleReg EXCEPT !.pc = "done", !.caller = "sched",
                               !.result = "no_config"]]
    /\ UNCHANGED <<pve_job, source_conf, dest_conf>>
    /\ UNCHANGED notPve

register_vm_manual(r, ok) ==
    /\ source_conf # NoText
    /\ regs[r].pc = "idle"
    /\ regs' = [regs EXCEPT ![r] =
          IF ok
          THEN [pc |-> "check", caller |-> "manual", vmid |-> TargetVmId(pve_job),
                content |-> source_conf,
                source_storage |-> pve_job.source_storage,
                dest_storage |-> pve_job.dest_storage,
                existed |-> GuestExists(TargetVmId(pve_job)), result |-> "none"]
          ELSE [IdleReg EXCEPT !.pc = "done", !.caller = "manual",
                               !.result = "no_config"]]
    /\ UNCHANGED <<pve_job, source_conf, dest_conf>>
    /\ UNCHANGED notPve

\* register_vm lines 393-404: the id is refused when the status command
\* succeeded and printed a status
check_vmid(r, ok) ==
    /\ regs[r].pc = "check"
    /\ regs' = [regs EXCEPT ![r] =
          IF ok /\ GuestExists(regs[r].vmid)
          THEN [@ EXCEPT !.pc = "done", !.result = "conflict"]
          ELSE [@ EXCEPT !.pc = IF regs[r].dest_storage # NoText
                                THEN "storage" ELSE "write"]]
    /\ UNCHANGED <<pve_job, source_conf, dest_conf>>
    /\ UNCHANGED notPve

\* register_vm lines 406-417
ensure_zfs_storage(r, ok) ==
    /\ regs[r].pc = "storage"
    /\ regs' = [regs EXCEPT ![r] =
          IF ok THEN [@ EXCEPT !.pc = "write"]
          ELSE [@ EXCEPT !.pc = "done", !.result = "storage_error"]]
    /\ UNCHANGED <<pve_job, source_conf, dest_conf>>
    /\ UNCHANGED notPve

\* register_vm lines 419-423: the text the config command writes
ConfigToWrite(reg) ==
    IF /\ reg.source_storage # NoText /\ reg.dest_storage # NoText
       /\ reg.source_storage # reg.dest_storage
    THEN StrReplace(reg.content, reg.source_storage \o Colon, reg.dest_storage \o Colon)
    ELSE reg.content

\* register_vm lines 425-443: cat > config_path
write_config(r, ok) ==
    /\ regs[r].pc = "write"
    /\ IF ok
       THEN /\ dest_conf' = [dest_conf EXCEPT ![regs[r].vmid][pve_job.vm_type] =
                                 ConfigToWrite(regs[r])]
            /\ regs' = [regs EXCEPT ![r].pc = "verify"]
       ELSE /\ regs' = [regs EXCEPT ![r].pc = "done", ![r].result = "write_error"]
            /\ UNCHANGED dest_conf
    /\ UNCHANGED <<pve_job, source_conf>>
    /\ UNCHANGED notPve

\* register_vm lines 445-457: qm status / pct status
verify_vm(r, ok) ==
    /\ regs[r].pc = "verify"
    /\ regs' = [regs EXCEPT ![r].pc = "done",
                            ![r].result = IF ok THEN "registered" ELSE "verify_failed"]
    /\ UNCHANGED <<pve_job, source_conf, dest_conf>>
    /\ UNCHANGED notPve

NextPve ==
    \/ \E job \in PveJobs, text \in ConfigTexts,
          held \in {h \in SUBSET (VmIds \X VmTypes) : Cardinality(h) <= 1} :
          create_vm_replica_jobs(job, text, held)
    \/ \E r \in RegIds, ok \in BOOLEAN : register_vm_after_sync(r, ok)
    \/ \E r \in RegIds, ok \in BOOLEAN : register_vm_manual(r, ok)
    \/ \E r \in RegIds, ok \in BOOLEAN : check_vmid(r, ok)
    \/ \E r \in RegIds, ok \in BOOLEAN : ensure_zfs_storage(r, ok)
    \/ \E r \in RegIds, ok \in BOOLEAN : write_config(r, ok)
    \/ \E r \in RegIds, ok \in BOOLEAN : verify_vm(r, ok)

SpecPve == Init /\ [][NextPve]_vars

TypeOKPve ==
    /\ pve_job \in PveJobs
    /\ source_conf \in ConfigTexts \cup {NoText}
    /\ DOMAIN dest_conf = VmIds
    /\ \A r \in RegIds :
          regs[r].pc \in {"idle", "check", "storage", "write", "verify", "done"}

\* C17: when the guest id already exists on the destination, as a VM or as a
\* container, registering a guest with that id is refused (Conflict) and no
\* command that writes the destination config file is issued.
C17_ExistingGuestRefused ==
    [][\A r \in RegIds :
          regs[r].existed
          => /\ \A ok \in BOOLEAN : ~write_config(r, ok)
             /\ regs'[r].pc = "done" => regs'[r].result = "conflict"]_vars

\* C18: after a successful run (scheduled or manual) of a job with register_vm,
\* source_storage S, dest_storage D and dest_vm_id V, the config written on
\* the destination is the file of guest V: the source config with every 'S:'
\* replaced by 'D:' and everything else as in the source config.
C18_ConfigWrittenForDestGuest ==
    \A r \in RegIds :
        ( /\ regs[r].pc = "done" /\ regs[r].result = "registered"
          /\ pve_job.source_storage # NoText /\ pve_job.dest_storage # NoText
          /\ pve_job.dest_vm_id # None )
        => dest_conf[pve_job.dest_vm_id][pve_job.vm_type]
               = StrReplace(source_conf, pve_job.source_storage \o Colon,
                            pve_job.dest_storage \o Colon)

\* ============================================================ the nodes API
\* routers/nodes.py.  Every request has its own session; the handlers without
\* an await are one step, get_node_datasets is cut at its two SSH awaits.
notNodes == <<coreVars, notifVars, sshVars, digestVars, pveVars, refVars, sanoidVars, execVars, syncoidVars, cronVars, regrunVars, loopVars, accessVars>>

Existing == {n \in NodeIds : nodes[n].exists}
NameTaken(name, but) ==
    \E n \in Existing \ but : nodes[n].name = name

\* SQLite gives a new row the largest id in use plus one
NextNodeId == IF Existing = {} THEN 1 ELSE SetMax(Existing) + 1
NextDatasetId ==
    IF datasets = {} THEN 1 ELSE SetMax({d.id : d \in datasets}) + 1

\* POST /api/nodes/: a taken name is answered 400, else Node(**node.dict())
create_node(name, is_auth_node) ==
    /\ NextNodeId \in NodeIds
    /\ nodes' = IF NameTaken(name, {}) THEN nodes
                ELSE [nodes EXCEPT ![NextNodeId] =
                         [exists |-> TRUE, name |-> name,
                          is_auth_node |-> is_auth_node, updated_at |-> 0]]
    /\ UNCHANGED <<datasets, refreshes>>
    /\ UNCHANGED notNodes

\* an update that, like set_as_auth_node, clears the flag of the other nodes
\* when it sets is_auth_node
update_node_one_auth(n, name, is_auth_node) ==
    /\ nodes[n].exists
    /\ nodes' = IF name # Keep /\ NameTaken(name, {n}) THEN nodes
                ELSE [m \in NodeIds |->
                        IF m = n
                        THEN [nodes[n] EXCEPT
                                 !.name = IF name # Keep THEN name ELSE @,
                                 !.is_auth_node =
                                     IF is_auth_node # Keep THEN is_auth_node = "true"
                                     ELSE @,
                                 !.updated_at = 1]
                        ELSE [nodes[m] EXCEPT
                                 !.is_auth_node =
                                     IF is_auth_node = "true" THEN FALSE ELSE @]]
    /\ UNCHANGED <<datasets, refreshes>>
    /\ UNCHANGED notNodes

\* PUT /api/nodes/{node_id}: setattr for every field sent (Keep: not sent),
\* then node.updated_at = utcnow(); the unique index on nodes.name makes the
\* commit of a taken name fail
update_node(n, name, is_auth_node) ==
    /\ nodes[n].exists
    /\ nodes' = IF name # Keep /\ NameTaken(name, {n}) THEN nodes
                ELSE [nodes EXCEPT
                         ![n].name = IF name # Keep THEN name ELSE @,
                         ![n].is_auth_node =
                             IF is_auth_node # Keep THEN is_auth_node = "true" ELSE @,
                         ![n].updated_at = 1]
    /\ UNCHANGED <<datasets, refreshes>>
    /\ UNCHANGED notNodes

\* POST /api/nodes/{node_id}/set-auth-node: an UPDATE of the flagged rows, then
\* one of the row of n; updated_at has onupdate=utcnow
set_as_auth_node(n) ==
    /\ nodes[n].exists
    /\ nodes' = [m \in NodeIds |->
                   [nodes[m] EXCEPT
                       !.is_auth_node = (m = n),
                       !.updated_at = IF m = n \/ nodes[m].is_auth_node THEN 1 ELSE @]]
    /\ UNCHANGED <<datasets, refreshes>>
    /\ UNCHANGED notNodes

\* DELETE /api/nodes/{node_id}: the node's datasets go with it (cascade)
delete_node(n) ==
    /\ nodes[n].exists
    /\ nodes' = [nodes EXCEPT ![n] = BlankNode]
    /\ datasets' = {d \in datasets : d.node_id # n}
    /\ UNCHANGED refreshes
    /\ UNCHANGED notNodes

\* GET /api/nodes/{node_id}/datasets up to the await of get_zfs_datasets: the
\* machine is asked when refresh is set or the node has no dataset row
get_node_datasets(q, n, refresh) ==
    /\ refreshes[q].pc = "idle"
    /\ nodes[n].exists
    /\ refreshes' =
          IF refresh \/ ~\E d \in datasets : d.node_id = n
          THEN [refreshes EXCEPT ![q] =
                   [pc |-> "get_zfs_datasets", node_id |-> n, pending |-> {}]]
          ELSE refreshes
    /\ UNCHANGED <<nodes, datasets>>
    /\ UNCHANGED notNodes

\* get_zfs_datasets returned zfs: the loop adds to the session a row for every
\* name it finds no row of, then get_snapshots is awaited
get_zfs_datasets_returns(q, zfs) ==
    /\ refreshes[q].pc = "get_zfs_datasets"
    /\ refreshes' = [refreshes EXCEPT ![q].pc = "get_snapshots",
          ![q].pending = {name \in zfs :
                            ~\E d \in datasets :
                                d.node_id = refreshes[q].node_id /\ d.name = name}]
    /\ UNCHANGED <<nodes, datasets>>
    /\ UNCHANGED notNodes

\* the rows of names, inserted one after the other
RECURSIVE Inserted(_, _, _)
Inserted(rows, n, names) ==
    IF names = {} THEN rows
    ELSE LET name == CHOOSE x \in names : TRUE
             id == IF rows = {} THEN 1 ELSE SetMax({d.id : d \in rows}) + 1
         IN Inserted(rows \cup {[id |-> id, node_id |-> n, name |-> name]},
                     n, names \ {name})

\* get_snapshots returned: the session is flushed and committed
get_snapshots_returns(q) ==
    /\ refreshes[q].pc = "get_snapshots"
    /\ datasets' = Inserted(datasets, refreshes[q].node_id, refreshes[q].pending)
    /\ \A d \in datasets' : d.id \in DatasetIds
    /\ refreshes' = [refreshes EXCEPT ![q] = IdleRequest]
    /\ UNCHANGED nodes
    /\ UNCHANGED notNodes

NextNodes ==
    \/ \E name \in NodeNames, a \in BOOLEAN : create_node(name, a)
    \/ \E n \in NodeIds, name \in NodeNames \cup {Keep},
          a \in {"true", "false", Keep} : update_node(n, name, a)
    \/ \E n \in NodeIds : set_as_auth_node(n)
    \/ \E n \in NodeIds : delete_node(n)
    \/ \E q \in RequestIds, n \in NodeIds, refresh \in BOOLEAN :
          get_node_datasets(q, n, refresh)
    \/ \E q \in RequestIds, zfs \in SUBSET DatasetNames :
          get_zfs_datasets_returns(q, zfs)
    \/ \E q \in RequestIds : get_snapshots_returns(q)

SpecNodes == Init /\ [][NextNodes]_vars

TypeOKNodes ==
    /\ \A n \in NodeIds : nodes[n].is_auth_node \in BOOLEAN
    /\ \A d \in datasets : d.id \in DatasetIds /\ d.name \in DatasetNames
    /\ \A q \in RequestIds :
          refreshes[q].pc \in {"idle", "get_zfs_datasets", "get_snapshots"}

\* C19: at most one node has is_auth_node = true, after any sequence of
\* create-node, update-node, set-auth-node and delete-node.
C19_OneAuthNode ==
    Cardinality({n \in Existing : nodes[n].is_auth_node}) <= 1

\* C20: node names are pairwise distinct and (node_id, dataset name) pairs are
\* pairwise distinct, after any sequence and interleaving of create-node,
\* update-node and dataset refresh.
C20_NamesAndDatasetsUnique ==
    /\ \A n, m \in Existing : n # m => nodes[n].name # nodes[m].name
    /\ \A d, e \in datasets :
          d.id # e.id => <<d.node_id, d.name>> # <<e.node_id, e.name>>

\* ================================================= jobs and their nodes
notRefs == <<coreVars, notifVars, sshVars, digestVars, pveVars, nodeVars, sanoidVars, execVars, syncoidVars, cronVars, regrunVars, loopVars, accessVars>>

\* INTEGER PRIMARY KEY without AUTOINCREMENT: the next rowid is max(rowid) + 1
NextNodeRowId == SetMax(node_ids) + 1
NextJobRowId == SetMax({r.id : r \in job_rows}) + 1

\* the rows of sync_jobs that name node n as source or destination
Referencing(n) ==
    {r \in job_rows : r.source_node_id = n \/ r.dest_node_id = n}

JobRow(id, s, d, g, vm) ==
    [id |-> id, source_node_id |-> s, dest_node_id |-> d,
     vm_group_id |-> g, vm_id |-> vm]

\* POST /api/nodes
create_node_row ==
    /\ NextNodeRowId <= NNodes
    /\ node_ids' = node_ids \cup {NextNodeRowId}
    /\ UNCHANGED <<job_rows, replicas, groups, run_logs, run_task, notRefs>>

\* DELETE /api/nodes/{id}: db.delete(node), then log_audit commits.  The
\* relationships sync_jobs_source and sync_jobs_dest have no delete cascade:
\* the flush sets the node columns of the referencing rows to NULL, the
\* columns are NOT NULL, the flush raises and the transaction is rolled back
delete_node_row(n) ==
    /\ n \in node_ids
    /\ node_ids' = IF Referencing(n) = {} THEN node_ids \ {n} ELSE node_ids
    /\ UNCHANGED <<job_rows, replicas, groups, run_logs, run_task, notRefs>>

\* POST /api/sync-jobs: 400 when the source or the destination is not a row
create_sync_job_row(s, d, vm) ==
    /\ NextJobRowId <= MaxJobRows
    /\ job_rows' = IF s \in node_ids /\ d \in node_ids
                   THEN job_rows \cup {JobRow(NextJobRowId, s, d, NoGroup, vm)}
                   ELSE job_rows
    /\ UNCHANGED <<node_ids, replicas, groups, run_logs, run_task, notRefs>>

\* PUT /api/sync-jobs/{id}: setattr for every key of SyncJobUpdate that was
\* sent; of the columns modelled here SyncJobUpdate has vm_id only
update_sync_job_row(j, vm) ==
    /\ \E r \in job_rows : r.id = j
    /\ job_rows' = {IF r.id = j THEN [r EXCEPT !.vm_id = vm] ELSE r : r \in job_rows}
    /\ UNCHANGED <<node_ids, replicas, groups, run_logs, run_task, notRefs>>

\* DELETE /api/sync-jobs/{id}
delete_sync_job_row(j) ==
    /\ \E r \in job_rows : r.id = j
    /\ job_rows' = {r \in job_rows : r.id # j}
    /\ UNCHANGED <<node_ids, replicas, groups, run_logs, run_task, notRefs>>

\* the rows create_vm_replica_jobs adds: one per disk, all with the node ids
\* and the guest id of the request and a fresh vm_group_id
ReplicaRows(req, disks) ==
    {JobRow(NextJobRowId + i, req.source_node_id, req.dest_node_id,
            groups + 1, req.vm_id) : i \in 0..(disks - 1)}

\* POST /api/sync-jobs/vm-replica up to its await: 400 when a node is not a
\* row; with disks in the body the rows are added at once, without them the
\* handler awaits get_vm_disks_with_size
create_vm_replica_jobs_check(q, s, d, vm, disks) ==
    /\ replicas[q].pc = "idle"
    /\ groups < NGroups
    /\ NextJobRowId + MaxDisks - 1 <= MaxJobRows
    /\ LET req == [pc |-> "awaiting", source_node_id |-> s, dest_node_id |-> d,
                   vm_id |-> vm]
       IN  IF ~(s \in node_ids /\ d \in node_ids)
           THEN UNCHANGED <<job_rows, replicas, groups>>
           ELSE IF disks = 0
           THEN /\ replicas' = [replicas EXCEPT ![q] = req]
                /\ UNCHANGED <<job_rows, groups>>
           ELSE /\ job_rows' = job_rows \cup ReplicaRows(req, disks)
                /\ groups' = groups + 1
                /\ UNCHANGED replicas
    /\ UNCHANGED <<node_ids, run_logs, run_task, notRefs>>

\* get_vm_disks_with_size returns: 400 without disks, else a row per disk
create_vm_replica_jobs_commit(q, disks) ==
    /\ replicas[q].pc = "awaiting"
    /\ disks > 0 => groups < NGroups /\ NextJobRowId + disks - 1 <= MaxJobRows
    /\ replicas' = [replicas EXCEPT ![q] = IdleReplica]
    /\ IF disks = 0
       THEN UNCHANGED <<job_rows, groups>>
       ELSE /\ job_rows' = job_rows \cup ReplicaRows(replicas[q], disks)
            /\ groups' = groups + 1
    /\ UNCHANGED <<node_ids, run_logs, run_task, notRefs>>

\* DELETE /api/sync-jobs/vm-group/{vm_group_id}: 404 when no row has it
delete_vm_group_jobs(g) ==
    /\ \E r \in job_rows : r.vm_group_id = g
    /\ job_rows' = {r \in job_rows : r.vm_group_id # g}
    /\ UNCHANGED <<node_ids, replicas, groups, run_logs, run_task, notRefs>>

\* _check_and_run_jobs: the loop creates the run task of a due job j, a row
\* of its query; the nodes of the job are not looked at here (the manual
\* run endpoint answers 400 without its nodes and creates no task)
dispatch_run(j) ==
    /\ run_task.pc \in {"none", "returned", "syncing"}
    /\ Cardinality(run_logs) < MaxRunLogs
    /\ \E r \in job_rows : r.id = j
    /\ run_task' = [job_id |-> j, pc |-> "dispatched"]
    /\ run_logs' = {}
    /\ UNCHANGED <<node_ids, job_rows, replicas, groups, notRefs>>

\* _execute_job / execute_sync_job_task up to the first await: the job row
\* and its two nodes are looked up; without the row or without a node the
\* task returns, else it adds the 'started' row and goes on to the command
execute_job_lookup ==
    /\ run_task.pc = "dispatched"
    /\ IF \E r \in job_rows : /\ r.id = run_task.job_id
                              /\ r.source_node_id \in node_ids
                              /\ r.dest_node_id \in node_ids
       THEN /\ run_logs' = run_logs \cup {[job_id |-> run_task.job_id, status |-> "started"]}
            /\ run_task' = [run_task EXCEPT !.pc = "syncing"]
       ELSE /\ run_logs' = run_logs
            /\ run_task' = [run_task EXCEPT !.pc = "returned"]
    /\ UNCHANGED <<node_ids, job_rows, replicas, groups, notRefs>>

NextRefs ==
    \/ create_node_row
    \/ \E n \in NodeIds : delete_node_row(n)
    \/ \E s \in NodeIds, d \in NodeIds, vm \in {None, SourceVmId} :
          create_sync_job_row(s, d, vm)
    \/ \E j \in JobRowIds, vm \in VmIds \cup {None} : update_sync_job_row(j, vm)
    \/ \E j \in JobRowIds : delete_sync_job_row(j)
    \/ \E q \in ReplicaIds, s \in NodeIds, d \in NodeIds, vm \in VmIds,
          disks \in 0..MaxDisks : create_vm_replica_jobs_check(q, s, d, vm, disks)
    \/ \E q \in ReplicaIds, disks \in 0..MaxDisks :
          create_vm_replica_jobs_commit(q, disks)
    \/ \E g \in GroupIds : delete_vm_group_jobs(g)
    \/ \E j \in JobRowIds : dispatch_run(j)
    \/ execute_job_lookup

SpecRefs == Init /\ [][NextRefs]_vars

TypeOKRefs ==
    /\ node_ids \subseteq NodeIds
    /\ \A r \in job_rows : r.id \in JobRowIds /\ r.vm_group_id \in GroupIds \cup {NoGroup}
    /\ groups \in 0..NGroups

\* C21: every row of sync_jobs names, as source and as destination, a node
\* that is a row of nodes
C21_JobsNameExistingNodes ==
    \A r \in job_rows : r.source_node_id \in node_ids /\ r.dest_node_id \in node_ids

\* C24: the rows of sync_jobs that share a vm_group_id have the same source
\* node, the same destination node and the same guest id
C24_GroupSharesNodesAndGuest ==
    \A r1 \in job_rows, r2 \in job_rows :
        r1.vm_group_id # NoGroup /\ r1.vm_group_id = r2.vm_group_id
        => /\ r1.source_node_id = r2.source_node_id
           /\ r1.dest_node_id = r2.dest_node_id
           /\ r1.vm_id = r2.vm_id

\* ================================================= the snapshot tool
notSanoid == <<coreVars, notifVars, sshVars, digestVars, pveVars, nodeVars, refVars, execVars, syncoidVars, cronVars, regrunVars, loopVars, accessVars>>

SanoidTick ==
    /\ snap_now < MaxSnapTime
    /\ snap_now' = snap_now + 1
    /\ UNCHANGED <<snap_runs, snap_logs, notSanoid>>

\* run_sanoid up to its await: 404 when the node is not a row (found = FALSE)
run_sanoid(q, found) ==
    /\ snap_runs[q] = "idle"
    /\ snap_runs' = IF found THEN [snap_runs EXCEPT ![q] = "awaiting"] ELSE snap_runs
    /\ UNCHANGED <<snap_now, snap_logs, notSanoid>>

\* the row run_sanoid adds: started_at by the column default at the insert,
\* completed_at is not passed and has no default
SanoidLog(id, ok) ==
    [id |-> id, job_type |-> "snapshot", status |-> IF ok THEN "success" ELSE "failed",
     started_at |-> snap_now, completed_at |-> None]

\* sanoid_service.run_sanoid returns: the row is added and committed
run_sanoid_returns(q, ok) ==
    /\ snap_runs[q] = "awaiting"
    /\ SetMax({r.id : r \in snap_logs}) < MaxSnapLogs
    /\ snap_runs' = [snap_runs EXCEPT ![q] = "idle"]
    /\ snap_logs' = snap_logs \cup {SanoidLog(SetMax({r.id : r \in snap_logs}) + 1, ok)}
    /\ UNCHANGED <<snap_now, notSanoid>>

NextSanoid ==
    \/ SanoidTick
    \/ \E q \in SnapRunIds, found \in BOOLEAN : run_sanoid(q, found)
    \/ \E q \in SnapRunIds, ok \in BOOLEAN : run_sanoid_returns(q, ok)

SpecSanoid == Init /\ [][NextSanoid]_vars

\* C22: a row of job_logs with status success or failed has completed_at
\* set, and not before started_at
C22_EndedRowHasCompletedAt ==
    \A r \in snap_logs :
        r.status \in {"success", "failed"}
        => r.completed_at # None /\ r.completed_at >= r.started_at

\* C23: a job's last_status is 'running' exactly when a row of job_logs of that
\* job has status 'started'
C23_RunningIffStartedRow ==
    \A j \in JobIds :
        sync_jobs[j].exists
        => (sync_jobs[j].last_status = "running"
            <=> \E r \in job_logs : r.job_id = j /\ r.status = "started")

\* ================================================= one execute call
notExec == <<coreVars, notifVars, sshVars, digestVars, pveVars, nodeVars, refVars, sanoidVars, syncoidVars, cronVars, regrunVars, loopVars, accessVars>>

\* SSHResult(success=(exit_code == 0), ..., exit_code=exit_code)
SSHResult(c, exit_code) ==
    [c EXCEPT !.pc = "returned", !.success = (exit_code = 0), !.exit_code = exit_code]

\* the except branch of _execute: SSHResult(success=False, ..., exit_code=-1)
SSHError(c, why) ==
    [c EXCEPT !.pc = "returned", !.success = FALSE, !.exit_code = -1, !.failed = why]

\* execute(hostname, command, ..., timeout): _execute is handed to the pool
call_execute(timeout) ==
    /\ call.pc \in {"idle", "returned"}
    /\ call' = [IdleCall EXCEPT !.pc = "get_client", !.timeout = timeout]
    /\ UNCHANGED notExec

\* _get_client returns a client, or connect raises (no route, refused, banner
\* timeout, authentication) and _execute returns from its except branch
call_get_client(outcome) ==
    /\ call.pc = "get_client"
    /\ call' = IF outcome = "ok" THEN [call EXCEPT !.pc = "exec_command"]
               ELSE SSHError(call, outcome)
    /\ UNCHANGED notExec

\* client.exec_command(command, timeout=timeout): opens a session, sets the
\* channel's timeout and sends the command; on a dead transport it raises
call_exec_command(ok) ==
    /\ call.pc = "exec_command"
    /\ call' = IF ok
               THEN [call EXCEPT !.pc = "recv_exit_status", !.command = "running",
                                 !.issued = @ + 1]
               ELSE SSHError(call, "transport")
    /\ UNCHANGED notExec

\* a tick passes while the remote command runs
CallTick ==
    /\ call.command = "running"
    /\ call.elapsed < MaxElapsed
    /\ call' = [call EXCEPT !.elapsed = @ + 1]
    /\ UNCHANGED notExec

\* the remote command ends and the server sends its exit status
command_exits(status) ==
    /\ call.command = "running"
    /\ call' = [call EXCEPT !.command = "exited", !.exit_status = status]
    /\ UNCHANGED notExec

\* the transport fails while the command runs: the channel is closed and no
\* exit status was received
channel_closes ==
    /\ call.command = "running"
    /\ call' = [call EXCEPT !.command = "closed", !.failed = "transport"]
    /\ UNCHANGED notExec

\* stdout.channel.recv_exit_status(): waits, without a timeout, for the exit
\* status or the end of the channel and returns Channel.exit_status
call_recv_exit_status ==
    /\ call.pc = "recv_exit_status"
    /\ call.command \in {"exited", "closed"}
    /\ call' = [call EXCEPT !.pc = "read"]
    /\ UNCHANGED notExec

\* stdout.read() and stderr.read(): the end of the stream arrives, or nothing
\* arrives for the channel's timeout and read raises socket.timeout
call_read(eof) ==
    /\ call.pc = "read"
    /\ call.command = "closed" => eof
    /\ call' = IF eof THEN SSHResult(call, call.exit_status)
               ELSE SSHError(call, "timeout")
    /\ UNCHANGED notExec

ConnectOutcomes == {"ok", "connect", "auth"}
ExitStatuses == {0, 1}

NextExec ==
    \/ \E timeout \in Timeouts : call_execute(timeout)
    \/ \E outcome \in ConnectOutcomes : call_get_client(outcome)
    \/ \E ok \in BOOLEAN : call_exec_command(ok)
    \/ CallTick
    \/ \E status \in ExitStatuses : command_exits(status)
    \/ channel_closes
    \/ call_recv_exit_status
    \/ \E eof \in BOOLEAN : call_read(eof)

SpecExec == Init /\ [][NextExec]_vars

\* the command has run for longer than the call's timeout
TimeoutExpired == call.elapsed > call.timeout

\* C25: a returned call has ok = (exit == 0); a call whose connection,
\* authentication or transport failed, or whose command outran the timeout,
\* has returned ok = false and exit = -1; the command is sent at most once
C25_RunResult ==
    /\ call.pc = "returned" => call.success = (call.exit_code = 0)
    /\ call.pc = "returned" /\ call.failed # "none"
       => ~call.success /\ call.exit_code = -1
    /\ TimeoutExpired
       => call.pc = "returned" /\ ~call.success /\ call.exit_code = -1
    /\ call.issued <= 1

\* ================================================= syncoid
notSyncoid == <<coreVars, notifVars, sshVars, digestVars, pveVars, nodeVars, refVars, sanoidVars, execVars, cronVars, regrunVars, loopVars, accessVars>>

\* " ".join(cmd_parts)
RECURSIVE JoinParts(_)
JoinParts(parts) ==
    IF parts = <<>> THEN ""
    ELSE IF Len(parts) = 1 THEN parts[1]
    ELSE parts[1] \o " " \o JoinParts(Tail(parts))

\* cmd_parts.append(part) under a condition
AppendIf(parts, test, part) == IF test THEN Append(parts, part) ELSE parts

\* a builder that takes the source's key and port when both ends are remote
build_source_first(a) ==
    LET p1 == AppendIf(<<"syncoid">>, a.recursive, "--recursive")
        p2 == AppendIf(p1, a.compress # "" /\ a.compress # "none",
                       "--compress=" \o a.compress)
        p3 == AppendIf(p2, a.mbuffer_size # "", "--mbuffer-size=" \o a.mbuffer_size)
        p4 == AppendIf(p3, a.no_sync_snap, "--no-sync-snap")
        p5 == AppendIf(p4, a.force_delete, "--force-delete")
        p6 == IF a.source_host # ""
              THEN AppendIf(Append(p5, "--sshkey=" \o a.source_key),
                            a.source_port # DefaultSshPort,
                            "--sshport=" \o ToString(a.source_port))
              ELSE IF a.dest_host # ""
              THEN AppendIf(Append(p5, "--sshkey=" \o a.dest_key),
                            a.dest_port # DefaultSshPort,
                            "--sshport=" \o ToString(a.dest_port))
              ELSE p5
        p7 == AppendIf(p6, a.extra_args # "", a.extra_args)
        source == IF a.source_host # ""
                  THEN a.source_user \o "@" \o a.source_host \o ":" \o a.source_dataset
                  ELSE a.source_dataset
        dest == IF a.dest_host # ""
                THEN a.dest_user \o "@" \o a.dest_host \o ":" \o a.dest_dataset
                ELSE a.dest_dataset
    IN  JoinParts(Append(Append(p7, source), dest))

\* build_syncoid_command
build_syncoid_command(a) ==
    LET p1 == AppendIf(<<"syncoid">>, a.recursive, "--recursive")
        p2 == AppendIf(p1, a.compress # "" /\ a.compress # "none",
                       "--compress=" \o a.compress)
        p3 == AppendIf(p2, a.mbuffer_size # "", "--mbuffer-size=" \o a.mbuffer_size)
        p4 == AppendIf(p3, a.no_sync_snap, "--no-sync-snap")
        p5 == AppendIf(p4, a.force_delete, "--force-delete")
        p6 == IF a.dest_host # ""
              THEN AppendIf(Append(p5, "--sshkey=" \o a.dest_key),
                            a.dest_port # DefaultSshPort,
                            "--sshport=" \o ToString(a.dest_port))
              ELSE IF a.source_host # ""
              THEN AppendIf(Append(p5, "--sshkey=" \o a.source_key),
                            a.source_port # DefaultSshPort,
                            "--sshport=" \o ToString(a.source_port))
              ELSE p5
        p7 == AppendIf(p6, a.extra_args # "", a.extra_args)
        source == IF a.source_host # ""
                  THEN a.source_user \o "@" \o a.source_host \o ":" \o a.source_dataset
                  ELSE a.source_dataset
        dest == IF a.dest_host # ""
                THEN a.dest_user \o "@" \o a.dest_host \o ":" \o a.dest_dataset
                ELSE a.dest_dataset
    IN  JoinParts(Append(Append(p7, source), dest))

\* Python's `x or default`
Or(x, default) == IF x = "" THEN default ELSE x

\* the columns of a job that reach the command, and the two ends
JobOptions ==
    [recursive : BOOLEAN, compress : {"lz4", "none", ""}, mbuffer_size : {"128M", ""},
     no_sync_snap : BOOLEAN, force_delete : BOOLEAN, extra_args : {"", "--quiet"}]
SshPorts == {DefaultSshPort, 2222}
Endpoints ==
    [source_host : {"", "10.0.0.1"}, dest_host : {"", "10.0.0.2"},
     source_port : SshPorts, dest_port : SshPorts]

\* the arguments the run paths pass to run_sync: compress or "lz4",
\* mbuffer_size or "128M", extra_args or ""
SyncArgs(job, ends) ==
    [source_host |-> ends.source_host, source_dataset |-> "rpool/data",
     dest_host |-> ends.dest_host, dest_dataset |-> "tank/replica",
     source_user |-> "root", dest_user |-> "backup",
     source_port |-> ends.source_port, dest_port |-> ends.dest_port,
     source_key |-> "/root/.ssh/id_src", dest_key |-> "/root/.ssh/id_dst",
     recursive |-> job.recursive, compress |-> Or(job.compress, "lz4"),
     mbuffer_size |-> Or(job.mbuffer_size, "128M"),
     no_sync_snap |-> job.no_sync_snap, force_delete |-> job.force_delete,
     extra_args |-> Or(job.extra_args, "")]

\* run_sync up to its await: the command is built from the arguments
run_sync(job, ends) ==
    /\ cmd_args' = SyncArgs(job, ends)
    /\ cmd' = build_syncoid_command(SyncArgs(job, ends))
    /\ UNCHANGED <<output, transferred, notSyncoid>>

NextSyncoid ==
    \E job \in JobOptions, ends \in Endpoints : run_sync(job, ends)

SpecSyncoid == Init /\ [][NextSyncoid]_vars

\* the end whose key and port the command names: the destination when it is
\* remote, else the source when it is remote, else none
HintEnd ==
    IF cmd_args.dest_host # "" THEN "dest"
    ELSE IF cmd_args.source_host # "" THEN "source" ELSE "none"
HintKey == IF HintEnd = "dest" THEN cmd_args.dest_key ELSE cmd_args.source_key
HintPort == IF HintEnd = "dest" THEN cmd_args.dest_port ELSE cmd_args.source_port

\* the options in the order of the statement, each with the test for its
\* presence
OptionTable ==
    << <<cmd_args.recursive, "--recursive">>,
       <<cmd_args.compress # "none", "--compress=" \o cmd_args.compress>>,
       <<TRUE, "--mbuffer-size=" \o cmd_args.mbuffer_size>>,
       <<cmd_args.no_sync_snap, "--no-sync-snap">>,
       <<cmd_args.force_delete, "--force-delete">>,
       <<HintEnd # "none", "--sshkey=" \o HintKey>>,
       <<HintEnd # "none" /\ HintPort # DefaultSshPort,
         "--sshport=" \o ToString(HintPort)>>,
       <<cmd_args.extra_args # "", cmd_args.extra_args>> >>

RECURSIVE Spaced(_)
Spaced(table) ==
    IF table = <<>> THEN ""
    ELSE (IF table[1][1] THEN " " \o table[1][2] ELSE "") \o Spaced(Tail(table))

Place1(host, user, dataset) ==
    IF host = "" THEN dataset ELSE user \o "@" \o host \o ":" \o dataset

\* C26: the command is the tool name, the options that are present in the
\* order recursive, compress, mbuffer-size, no-sync-snap, force-delete,
\* sshkey, sshport, the extras, then the source and the destination
C26_CommandShape ==
    cmd # ""
    => cmd = "syncoid" \o Spaced(OptionTable)
             \o " " \o Place1(cmd_args.source_host, cmd_args.source_user,
                              cmd_args.source_dataset)
             \o " " \o Place1(cmd_args.dest_host, cmd_args.dest_user,
                              cmd_args.dest_dataset)

\* a command was built for two remote ends with a non-default destination
\* port, every flag set and extras
C26_BuiltForTwoRemoteEnds ==
    /\ cmd = "syncoid --recursive --compress=lz4 --mbuffer-size=128M --no-sync-snap --force-delete --sshkey=/root/.ssh/id_dst --sshport=2222 --quiet root@10.0.0.1:rpool/data backup@10.0.0.2:tank/replica"
    /\ cmd_args.source_port = DefaultSshPort

\* ------------------------------------------------- the output parser
\* The output is a sequence of words (the text between white space).  A word
\* of Sizes is one that \d+(?:\.\d+)?[KMGT]i?B? matches as a whole.
Sizes == {"1.5G", "2K"}
Words == Sizes \cup {"transferred", "Sent", "total", "done"}
NoMatch == ""

\* re.IGNORECASE: the words are compared in lower case
Lower(w) == IF w = "Sent" THEN "sent" ELSE w

PatternIds == 1..3

\* pattern k matches the words that start at position i:
\*   1  (size)\s+transferred     2  sent\s+(size)     3  (size)\s+total
MatchAt(k, out, i) ==
    /\ i + 1 <= Len(out)
    /\ CASE k = 1 -> out[i] \in Sizes /\ Lower(out[i + 1]) = "transferred"
         [] k = 2 -> Lower(out[i]) = "sent" /\ out[i + 1] \in Sizes
         [] k = 3 -> out[i] \in Sizes /\ Lower(out[i + 1]) = "total"

\* match.group(1)
Group(k, out, i) == IF k = 2 THEN out[i + 1] ELSE out[i]

\* re.search(pattern, output): the position of the leftmost match, 0 for None
Search(k, out) ==
    SetMin({i \in 1..Len(out) : MatchAt(k, out, i)} \cup {Len(out) + 1}) % (Len(out) + 1)

\* a parser that returns the match that comes first in the output
parse_leftmost(out) ==
    LET at == {i \in 1..Len(out) : \E k \in PatternIds : MatchAt(k, out, i)}
    IN  IF at = {} THEN NoMatch
        ELSE LET i == SetMin(at)
                 k == CHOOSE k \in PatternIds : MatchAt(k, out, i)
             IN  Group(k, out, i)

\* for pattern in patterns: match = re.search(...); if match: return group(1)
RECURSIVE ParseFrom(_, _)
ParseFrom(k, out) ==
    IF k > 3 THEN NoMatch
    ELSE IF Search(k, out) # 0 THEN Group(k, out, Search(k, out))
    ELSE ParseFrom(k + 1, out)

parse_transferred(out) == ParseFrom(1, out)

WordSeqs == UNION {[1..n -> Words] : n \in 0..MaxWords}

\* run_sync after ssh_service.execute returned:
\* transferred = self._parse_transferred(result.stdout + result.stderr)
run_sync_returns(stdout, stderr) ==
    /\ output' = stdout \o stderr
    /\ transferred' = parse_transferred(stdout \o stderr)
    /\ UNCHANGED <<cmd_args, cmd, notSyncoid>>

NextParser ==
    \E stdout \in WordSeqs, stderr \in WordSeqs : run_sync_returns(stdout, stderr)

SpecParser == Init /\ [][NextParser]_vars

\* the matches of the three patterns in the output: <<pattern, position>>
AllMatches ==
    {m \in PatternIds \X (1..Len(output)) : MatchAt(m[1], output, m[2])}

\* the match that comes first in the output
FirstInOutput == CHOOSE m \in AllMatches : \A n \in AllMatches : m[2] <= n[2]

\* the leftmost match of the first pattern, in the order transferred, sent,
\* total, that matches at all
FirstByPattern ==
    CHOOSE m \in AllMatches :
        \A n \in AllMatches : m[1] < n[1] \/ (m[1] = n[1] /\ m[2] <= n[2])

\* C27 as stated: no match gives null, one match gives its size, several
\* matches give the size of the one that comes first in the output
C27_FirstMatchInOutput ==
    transferred = IF AllMatches = {} THEN NoMatch
                  ELSE Group(FirstInOutput[1], output, FirstInOutput[2])

\* C27, amended: no match gives null, one match gives its size, several
\* matches give the size of the leftmost match of the first pattern, in the
\* order transferred, sent, total, that matches
C27_FirstMatchByPattern ==
    /\ AllMatches = {} => transferred = NoMatch
    /\ Cardinality(AllMatches) = 1
       => \E m \in AllMatches : transferred = Group(m[1], output, m[2])
    /\ AllMatches # {}
       => transferred = Group(FirstByPattern[1], output, FirstByPattern[2])

\* an output with matches of two patterns was parsed, and the size returned
\* is not the one of the match that comes first
C27_LaterMatchReturned ==
    /\ Cardinality(AllMatches) >= 2
    /\ transferred # Group(FirstInOutput[1], output, FirstInOutput[2])
    /\ transferred \in Sizes

\* ----------------------------------------------------------- first sight
\* this step is the first tick that sees job j: the loop's table gets its entry
FirstSight(j) == sched_jobs' # sched_jobs /\ sched_jobs[j] = None /\ sched_jobs'[j] # None

\* v is the first occurrence of job j's cron expression after x
FirstOccurrenceAfter(j, x, v) ==
    /\ v > x
    /\ Occurs(sync_jobs[j].schedule, v)
    /\ \A o \in (x + 1)..(v - 1) : ~Occurs(sync_jobs[j].schedule, o)

\* last_run ?? now
LastRunOrNow(j) == IF sync_jobs[j].last_run # None THEN sync_jobs[j].last_run ELSE now

\* C28 as stated: at the first tick that sees a job, its next_fire is the
\* first occurrence after last_run (after now when it never ran) and is
\* later than now
C28_FirstNextFire ==
    [][\A j \in JobIds :
          FirstSight(j)
          => /\ FirstOccurrenceAfter(j, LastRunOrNow(j), sched_jobs'[j])
             /\ sched_jobs'[j] > now]_vars

\* C28, amended: at the first tick that sees a job its next_fire is later
\* than now; it is the first occurrence after last_run (after now when the
\* job never ran) unless that occurrence has passed already, and then the
\* job is dispatched in this tick and next_fire is the first occurrence
\* after now
C28_FirstNextFireOrDispatch ==
    [][\A j \in JobIds :
          FirstSight(j)
          => /\ sched_jobs'[j] > now
             /\ \/ /\ FirstOccurrenceAfter(j, LastRunOrNow(j), sched_jobs'[j])
                   /\ ~DispatchedOnce(j)
                \/ /\ \E v \in 1..now : FirstOccurrenceAfter(j, LastRunOrNow(j), v)
                   /\ DispatchedOnce(j)
                   /\ FirstOccurrenceAfter(j, now, sched_jobs'[j])]_vars

\* a job that ended a run before the loop saw it was dispatched at its first
\* sight: its entry is the first occurrence after now, its task is waiting
C28_SeenFirstAfterARun ==
    \E j \in JobIds :
        /\ up /\ sync_jobs[j].exists
        /\ sync_jobs[j].last_run # None /\ sync_jobs[j].last_run < now
        /\ sync_jobs[j].run_count = 1
        /\ sched_jobs[j] # None /\ sched_jobs[j] > now
        /\ CopiesIn(Dispatched("sched", j), tasks) = 1

\* C29: an update of node n that is accepted gives the attributes sent their
\* new values and leaves the other attributes of n that a get returns, the
\* other nodes and the datasets as they were
C29_UpdateChangesSuppliedOnly ==
    [][\A n \in NodeIds, name \in NodeNames \cup {Keep}, a \in {"true", "false", Keep} :
          update_node(n, name, a) /\ ~(name # Keep /\ NameTaken(name, {n}))
          => /\ nodes'[n].exists
             /\ nodes'[n].name = IF name # Keep THEN name ELSE nodes[n].name
             /\ nodes'[n].is_auth_node =
                    IF a # Keep THEN a = "true" ELSE nodes[n].is_auth_node
             /\ \A m \in NodeIds \ {n} : nodes'[m] = nodes[m]
             /\ datasets' = datasets]_vars

\* two nodes exist, both flagged: the second got its flag while the first
\* kept its own
C29_UpdatedBesideAnotherNode ==
    /\ \A n \in NodeIds : nodes[n].exists /\ nodes[n].is_auth_node
    /\ nodes[1].updated_at = 0 /\ nodes[2].updated_at = 1
    /\ datasets # {}

\* the rows of r's job that had failed before r began, with no other row of
\* the job in between: the consecutive failures r follows
FailedJustBefore(r) ==
    {q \in job_logs :
        /\ q.job_id = r.job_id /\ q.id < r.id /\ q.status = "failed"
        /\ q.completed_at # None /\ q.completed_at < r.started_at
        /\ \A p \in job_logs :
              p.job_id = r.job_id /\ q.id < p.id /\ p.id < r.id
              => p.status = "failed"}

NodeMissing(j) ==
    \E r \in job_rows :
        r.id = j /\ ~(r.source_node_id \in node_ids /\ r.dest_node_id \in node_ids)

\* C31: a run that starts for a job without its source or destination node
\* writes a row with status failed for that job and sends no command
C31_MissingNodeWritesFailedRow ==
    [][execute_job_lookup /\ NodeMissing(run_task.job_id)
       => /\ \E r \in run_logs' : r.job_id = run_task.job_id /\ r.status = "failed"
          /\ run_task'.pc = "returned"]_vars

\* ================================================= a schedule that changes
\* The cron expressions are periods: p stands for "every p minutes", 0 for
\* no schedule.
CronPeriods == {1, 2, 3}

notCron == <<coreVars, notifVars, sshVars, digestVars, pveVars, nodeVars, refVars, sanoidVars, execVars, syncoidVars, regrunVars, loopVars, accessVars>>

\* POST /api/sync-jobs/ with a schedule
cron_create(p) ==
    /\ ~cron_job.exists
    /\ cron_job' = [exists |-> TRUE, schedule |-> p, is_active |-> TRUE, last_run |-> None]
    /\ api_next' = CronNext(p, cron_now)
    /\ UNCHANGED <<cron_now, loop_next, changed_at, fired, notCron>>

\* PUT /api/sync-jobs/{job_id} with another schedule in the body: the row
\* takes the expression, and update_job_schedule is called on the module singleton
\* scheduler_service; the table of the running loop is not touched
cron_update(p) ==
    /\ cron_job.exists
    /\ p # cron_job.schedule
    /\ cron_job' = [cron_job EXCEPT !.schedule = p]
    /\ api_next' = CronNext(p, cron_now)
    /\ changed_at' = cron_now
    /\ fired' = FALSE
    /\ UNCHANGED <<cron_now, loop_next, notCron>>

\* POST /api/sync-jobs/{job_id}/toggle
cron_toggle ==
    /\ cron_job.exists
    /\ cron_job' = [cron_job EXCEPT !.is_active = ~cron_job.is_active]
    /\ IF ~cron_job.is_active
       THEN /\ api_next' = CronNext(cron_job.schedule, cron_now)
            /\ changed_at' = cron_now
            /\ fired' = FALSE
       ELSE /\ api_next' = None
            /\ changed_at' = None
            /\ fired' = FALSE
    /\ UNCHANGED <<cron_now, loop_next, notCron>>

\* a run of the job ends: job.last_run = datetime.utcnow()
cron_run_ends ==
    /\ cron_job.exists
    /\ cron_job.last_run # cron_now
    /\ cron_job' = [cron_job EXCEPT !.last_run = cron_now]
    /\ UNCHANGED <<cron_now, loop_next, api_next, changed_at, fired, notCron>>

\* the entry of the running loop the pass at time t works with
LoopEntry(t) ==
    IF loop_next # None THEN loop_next
    ELSE CronNext(cron_job.schedule,
                  IF cron_job.last_run # None THEN cron_job.last_run ELSE t)

\* _scheduler_loop: asyncio.sleep(60) ends and _check_and_run_jobs makes its
\* pass at the new minute
cron_pass ==
    LET t == cron_now + 1 IN
    /\ cron_now < MaxCronTime
    /\ cron_now' = t
    /\ IF cron_job.exists /\ cron_job.is_active
       THEN IF t >= LoopEntry(t)
            THEN /\ loop_next' = CronNext(cron_job.schedule, t)
                 /\ fired' = TRUE
            ELSE /\ loop_next' = LoopEntry(t)
                 /\ fired' = fired
       ELSE UNCHANGED <<loop_next, fired>>
    /\ UNCHANGED <<cron_job, api_next, changed_at, notCron>>

NextCron ==
    \/ \E p \in CronPeriods : cron_create(p)
    \/ \E p \in CronPeriods : cron_update(p)
    \/ cron_toggle
    \/ cron_run_ends
    \/ cron_pass

SpecCron == Init /\ [][NextCron]_vars

TypeOKCron ==
    /\ cron_now \in 0..MaxCronTime
    /\ cron_job.schedule \in CronPeriods \cup {0}
    /\ loop_next \in {None} \cup (1..(MaxCronTime + 3))
    /\ api_next \in {None} \cup (1..(MaxCronTime + 3))
    /\ changed_at \in {None} \cup (0..MaxCronTime)
    /\ fired \in BOOLEAN

\* cron_new.next(t) of the last change
NewNextFire == CronNext(cron_job.schedule, changed_at)

\* C32: after the API set the job's schedule at time t (update, or
\* reactivation by toggle), the running loop's next dispatch of the job is
\* at the first pass at or after cron_new.next(t): a pass before it does not
\* dispatch the job, and the first pass at or after it does
C32_DispatchFollowsNewSchedule ==
    [][cron_pass /\ changed_at # None /\ ~fired /\ cron_job.is_active
       => (fired' <=> cron_now' >= NewNextFire)]_vars

\* ================================================= a run that registers
\* _execute_job lines 183-276 with _register_vm_after_sync, and
\* execute_sync_job_task lines 105-278.  The message of the log row is the
\* sequence of the texts written to it.
notRegister == <<coreVars, notifVars, sshVars, digestVars, pveVars, nodeVars, refVars, sanoidVars, execVars, syncoidVars, cronVars, loopVars, accessVars>>

RunKinds == {"sched", "manual"}

\* the run starts: the 'started' row (the scheduled run gives it a message)
\* and last_status = 'running' are committed
rv_start(kind, register_vm, vm_id) ==
    /\ rv_pc \in {"idle", "done"}
    /\ rv_pc' = IF kind = "manual" THEN "parent" ELSE "syncing"
    /\ rv_kind' = kind
    /\ rv_job' = [register_vm |-> register_vm, vm_id |-> vm_id, last_status |-> "running"]
    /\ rv_log' = [NoRunLog EXCEPT !.status = "started",
                      !.message = IF kind = "sched" THEN <<"avviata">> ELSE <<>>]
    /\ rv_result' = "none"
    /\ rv_attempted' = FALSE
    /\ UNCHANGED notRegister

ParentOutcomes == {"exists", "created", "not_created"}

\* execute_sync_job_task lines 122-146: the parent dataset on the destination
\* is looked for and created when missing; the outcome of a creation becomes
\* the row's message
rv_ensure_parent(outcome) ==
    /\ rv_pc = "parent"
    /\ rv_pc' = "syncing"
    /\ rv_log' = [rv_log EXCEPT !.message =
                     CASE outcome = "exists" -> @
                       [] outcome = "created" -> <<"Creato dataset parent">>
                       [] outcome = "not_created" -> <<"Attenzione: impossibile creare">>]
    /\ UNCHANGED <<rv_kind, rv_job, rv_result, rv_attempted, notRegister>>

\* db.commit() of the completion
Committed(log) == [log EXCEPT !.completed = TRUE]

\* run_sync returned (ok: result["success"]): the statuses are set, and a
\* successful run of a job with register_vm and a vm_id goes on to register
\* the guest before it commits
rv_sync_returns(ok) ==
    /\ rv_pc = "syncing"
    /\ rv_result' = IF ok THEN "success" ELSE "failed"
    /\ rv_job' = [rv_job EXCEPT !.last_status = IF ok THEN "success" ELSE "failed"]
    /\ IF ok
       THEN LET log == [rv_log EXCEPT !.status = "success",
                            !.message = IF rv_kind = "sched" THEN <<"completata">>
                                        ELSE Append(@, "completata")]
            IN  IF rv_job.register_vm /\ rv_job.vm_id # None
                THEN rv_log' = log /\ rv_pc' = "get_config"
                ELSE rv_log' = Committed(log) /\ rv_pc' = "done"
       ELSE /\ rv_log' = Committed([rv_log EXCEPT !.status = "failed", !.error = "stderr",
                              !.message = IF rv_kind = "sched" THEN <<"fallita">> ELSE @])
            /\ rv_pc' = "done"
    /\ UNCHANGED <<rv_kind, rv_attempted, notRegister>>

\* run_sync (or a command before it) raised: the exception handler
rv_sync_raises ==
    /\ rv_pc \in {"parent", "syncing"}
    /\ rv_result' = "raised"
    /\ rv_log' = Committed([rv_log EXCEPT !.status = "failed", !.error = "exception"])
    /\ rv_job' = [rv_job EXCEPT !.last_status = IF rv_kind = "manual" THEN "failed" ELSE @]
    /\ rv_pc' = "done"
    /\ UNCHANGED <<rv_kind, rv_attempted, notRegister>>

\* an exception of the registration that its own try/except did not catch:
\* the run's exception handler would write the row
AfterUncaughtRegistration(log, text) ==
    IF text = "Errore registrazione VM"
    THEN [log EXCEPT !.status = "failed", !.error = "exception"]
    ELSE [log EXCEPT !.message = Append(@, text)]

\* the registration's outcome in the log row: the try/except of
\* _register_vm_after_sync (scheduler.py 287-323) and of the manual run
\* (sync_jobs.py 185-223) appends a text to the message, whatever happened
AfterRegistration(log, text) == [log EXCEPT !.message = Append(@, text)]

ConfigOutcomes == {"read", "unreadable", "raised"}

\* get_vm_config_file / cat of the config on the source returned
rv_get_config(outcome) ==
    /\ rv_pc = "get_config"
    /\ rv_attempted' = TRUE
    /\ IF outcome = "read"
       THEN rv_log' = rv_log /\ rv_pc' = "register"
       ELSE /\ rv_log' = Committed(AfterRegistration(rv_log,
                             IF outcome = "raised" THEN "Errore registrazione VM"
                             ELSE IF rv_kind = "sched"
                                  THEN "Registrazione VM fallita: impossibile ottenere config"
                                  ELSE "Config VM non trovata su sorgente"))
            /\ rv_pc' = "done"
    /\ UNCHANGED <<rv_kind, rv_job, rv_result, notRegister>>

\* register_vm's returns (proxmox_service.py 404, 417, 442, 455, 457), or an exception
RegisterOutcomes ==
    {"registered", "conflict", "storage_error", "write_error", "verify_failed", "raised"}

\* proxmox_service.register_vm returned (success, msg) or raised
rv_register(outcome) ==
    /\ rv_pc = "register"
    /\ rv_log' = Committed(AfterRegistration(rv_log,
                     CASE outcome = "registered" -> "VM registrata"
                       [] outcome = "conflict" -> "Registrazione VM fallita: VMID in uso"
                       [] outcome = "storage_error" -> "Registrazione VM fallita: Errore storage"
                       [] outcome = "write_error" -> "Registrazione VM fallita: Errore creazione config"
                       [] outcome = "verify_failed" -> "Registrazione VM fallita: Verifica fallita"
                       [] outcome = "raised" -> "Errore registrazione VM"))
    /\ rv_pc' = "done"
    /\ UNCHANGED <<rv_kind, rv_job, rv_result, rv_attempted, notRegister>>

NextRegister ==
    \/ \E k \in RunKinds, f \in BOOLEAN, v \in {None} \cup VmIds : rv_start(k, f, v)
    \/ \E o \in ParentOutcomes : rv_ensure_parent(o)
    \/ \E ok \in BOOLEAN : rv_sync_returns(ok)
    \/ rv_sync_raises
    \/ \E o \in ConfigOutcomes : rv_get_config(o)
    \/ \E o \in RegisterOutcomes : rv_register(o)

SpecRegister == Init /\ [][NextRegister]_vars

TypeOKRegister ==
    /\ rv_pc \in {"idle", "parent", "syncing", "get_config", "register", "done"}
    /\ rv_kind \in RunKinds
    /\ rv_result \in {"none", "success", "failed", "raised"}
    /\ rv_attempted \in BOOLEAN
    /\ rv_log.status \in {"none", "started", "success", "failed"}
    /\ Len(rv_log.message) <= 3

IsPrefix(a, b) == Len(a) <= Len(b) /\ SubSeq(b, 1, Len(a)) = a

\* C33: the guest's registration is attempted only in a run whose
\* replication succeeded, on a job with register_vm; whatever its outcome
\* the row's status and the job's last_status stay success, and a step of
\* the registration changes nothing of the two rows but the message, which
\* it extends
C33_RegistrationKeepsSuccess ==
    [][rv_attempted'
       => /\ rv_result' = "success" /\ rv_job'.register_vm
          /\ rv_log'.status = "success" /\ rv_job'.last_status = "success"
          /\ rv_job' = rv_job
          /\ rv_log'.error = rv_log.error
          /\ IsPrefix(rv_log.message, rv_log'.message)
          /\ rv_pc' = "done" => Len(rv_log'.message) = Len(rv_log.message) + 1
                                /\ rv_log'.completed]_vars

\* a run ended whose registration raised
C33_RegistrationRaised ==
    /\ rv_pc = "done" /\ rv_attempted
    /\ rv_log.message[Len(rv_log.message)] = "Errore registrazione VM"

\* C34: the status of a row of job_logs only moves from started to success or
\* to failed, once: a row that reached success or failed is not modified
\* again, and a row is removed only by the retention clean-up
C34_LogRowsCloseOnce ==
    [][\A r \in job_logs :
          IF \E q \in job_logs' : q.id = r.id
          THEN LET q == CHOOSE q \in job_logs' : q.id = r.id
               IN  \/ q = r
                   \/ /\ r.status = "started"
                      /\ q.status \in {"success", "failed"}
                      /\ q.job_id = r.job_id /\ q.started_at = r.started_at
          ELSE \E d \in CleanupDays : cleanup_old_logs(d)]_vars

\* the digest hour and switch the configuration holds
ConfiguredHour ==
    IF system_config.hour # None THEN system_config.hour ELSE DefaultSummaryHour

\* C35: the daily digest is called only at a tick whose UTC hour is the
\* digest hour the configuration holds at that tick, and only while the
\* configuration has it enabled, also after the operator changed the two
\* while the scheduler was running
C35_DigestAtConfiguredHour ==
    [][\A o \in SummaryOutcomes :
          (check_daily_summary(o) /\ summary_calls' # summary_calls)
          => /\ HourOf(utcnow) = ConfiguredHour
             /\ system_config.enabled # "false"]_vars

\* the config file of guest v on the destination was written by a run
WrittenByARun(v) == \E k \in VmTypes : dest_conf[v][k] \notin {NoText, OldConfig}

\* C36: when several runs of one guest's jobs (same destination, same guest
\* id, register_vm set) end with success, one after the other or together,
\* the guest's config file on the destination is written at most once: a
\* registration that comes after a sibling's write writes nothing
C36_ConfigWrittenOnce ==
    [][\A r \in RegIds :
          write_config(r, TRUE) => ~WrittenByARun(regs[r].vmid)]_vars

\* ================================================= the daily limit's slot
\* The notifier with configurations that send by e-mail only (no await in a
\* call) and that switch the success notifications off and on.
DedupUpdates ==
    { ConfigRow(TRUE, TRUE, TRUE, FALSE, FALSE, FALSE, FALSE, FALSE),
      ConfigRow(FALSE, TRUE, TRUE, FALSE, FALSE, FALSE, FALSE, FALSE),
      ConfigRow(TRUE, FALSE, FALSE, FALSE, FALSE, FALSE, FALSE, FALSE) }

NextDedup ==
    \/ NotifierTick
    \/ \E u \in DedupUpdates : update_notification_config(u)
    \/ \E j \in NotifiedJobs, st \in Outcomes, sd \in IsScheduled :
          send_job_notification(j, st, sd)

SpecDedup == Init /\ [][NextDedup]_vars

\* the call of this step was dropped before the channels
Dropped == returned'.reason \in {"not_configured", "notify_disabled"}

\* C37: the slot of a job in the daily tracking is taken only by a scheduled
\* success that goes on to the channels; a scheduled success dropped because
\* the success notifications are off, or because there is no configuration,
\* leaves the tracking as it is, so it cannot suppress a later success of the
\* job on the same day
C37_SlotTakenOnlyWhenFannedOut ==
    [][\A j \in NotifiedJobs :
          /\ (send_job_notification(j, "success", TRUE) /\ Dropped)
                => daily_job_notifications' = daily_job_notifications
          /\ (daily_job_notifications'[j] # daily_job_notifications[j]
                /\ daily_job_notifications'[j] # None)
                => /\ send_job_notification(j, "success", TRUE)
                   /\ LoadedConfig.exists /\ LoadedConfig.notify_on_success
                   /\ returned'.reason = "sent"]_vars

\* a scheduled success was dropped for the flag on a day on which its job has
\* no slot, under a stored configuration that another update made
C37_DroppedLeftNoSlot ==
    /\ returned.reason = "notify_disabled" /\ returned.status = "success"
    /\ returned.is_scheduled
    /\ daily_job_notifications[returned.job_id] = None

\* ================================================= the rounds of the loop
\* _scheduler_loop (scheduler.py 84-93): _check_and_run_jobs, then
\* _check_daily_summary, then asyncio.sleep(60), all inside one try/except
\* that sleeps too.  A schedule is a period, or BadCron: a text croniter
\* does not parse (the API stores what it is given).
notLoop == <<coreVars, notifVars, sshVars, digestVars, pveVars, nodeVars, refVars, sanoidVars, execVars, syncoidVars, cronVars, regrunVars, accessVars>>

BadCron == -2
LoopSchedules == {BadCron, 1, 2}

\* POST /api/sync-jobs/ and PUT /api/sync-jobs/{job_id}: the row takes the
\* schedule as given; the running loop's table is not touched
lp_set_schedule(j, schedule) ==
    /\ lp_rows[j] # schedule
    /\ lp_rows' = [lp_rows EXCEPT ![j] = schedule]
    /\ UNCHANGED <<lp_tick, lp_running, lp_pc, lp_next, lp_dispatched,
                   lp_raised, lp_failed, lp_digest, notLoop>>

\* the rows of the pass's query: active jobs with a schedule
LoopQuery == {j \in LoopJobs : lp_rows[j] # 0}

\* the entry the pass tests for job j (no run has ended: last_run is None)
LoopNextRun(j) ==
    IF lp_next[j] # None THEN lp_next[j] ELSE CronNext(lp_rows[j], lp_tick)

\* croniter(job.schedule, ...) raises for job j in this pass: at first sight,
\* or after the dispatch when the next run is computed
LoopRaises(j) ==
    /\ lp_rows[j] = BadCron
    /\ lp_next[j] = None \/ lp_tick >= lp_next[j]

\* the run task of job j is created in this pass
LoopDue(j) ==
    IF lp_next[j] = None
    THEN lp_rows[j] # BadCron /\ lp_tick >= LoopNextRun(j)
    ELSE lp_tick >= lp_next[j]

\* a for loop without the try/except around each job: the first error ends it
HandledUntilError(query) ==
    {j \in query : \A k \in query : LoopRaises(k) => j <= k}

\* the jobs the for loop of the pass handles: the try/except inside the loop
\* (scheduler.py 142-161) logs the error of a job and goes on with the next
HandledJobs(query) == query

\* _check_and_run_jobs: the query (it raises when the database does, and the
\* loop's except branch then sleeps), then the pass over its rows
lp_check_and_run_jobs(query_fails) ==
    /\ lp_running
    /\ lp_pc = "jobs"
    /\ IF query_fails
       THEN /\ lp_failed' = TRUE
            /\ lp_pc' = "sleep"
            /\ UNCHANGED <<lp_next, lp_dispatched, lp_raised>>
       ELSE LET handled == HandledJobs(LoopQuery) IN
            /\ lp_failed' = FALSE
            /\ lp_raised' = {j \in handled : LoopRaises(j)}
            /\ lp_dispatched' = {j \in handled : LoopDue(j)}
            /\ lp_next' = [j \in LoopJobs |->
                  IF j \notin handled \/ lp_rows[j] = BadCron THEN lp_next[j]
                  ELSE IF LoopDue(j) THEN CronNext(lp_rows[j], lp_tick)
                  ELSE LoopNextRun(j)]
            /\ lp_pc' = IF handled = LoopQuery \/ lp_raised' = {}
                        THEN "digest" ELSE "sleep"
    /\ UNCHANGED <<lp_tick, lp_running, lp_rows, lp_digest, notLoop>>

\* _check_daily_summary returned or raised: the loop sleeps either way
lp_check_daily_summary ==
    /\ lp_running
    /\ lp_pc = "digest"
    /\ lp_digest' = TRUE
    /\ lp_pc' = "sleep"
    /\ UNCHANGED <<lp_tick, lp_running, lp_rows, lp_next, lp_dispatched,
                   lp_raised, lp_failed, notLoop>>

\* asyncio.sleep(60) ends and `while self._running` starts the next round
lp_sleep_ends ==
    /\ lp_running
    /\ lp_pc = "sleep"
    /\ lp_tick < MaxLoopTicks
    /\ lp_tick' = lp_tick + 1
    /\ lp_pc' = "jobs"
    /\ lp_dispatched' = {}
    /\ lp_raised' = {}
    /\ lp_failed' = FALSE
    /\ lp_digest' = FALSE
    /\ UNCHANGED <<lp_running, lp_rows, lp_next, notLoop>>

\* SchedulerService.stop(): the task is cancelled at its await
lp_stop ==
    /\ lp_running
    /\ lp_pc = "sleep"
    /\ lp_running' = FALSE
    /\ lp_pc' = "stopped"
    /\ UNCHANGED <<lp_tick, lp_rows, lp_next, lp_dispatched, lp_raised,
                   lp_failed, lp_digest, notLoop>>

LoopStep ==
    \/ \E f \in BOOLEAN : lp_check_and_run_jobs(f)
    \/ lp_check_daily_summary
    \/ lp_sleep_ends

NextLoop ==
    \/ \E j \in LoopJobs, p \in LoopSchedules : lp_set_schedule(j, p)
    \/ LoopStep
    \/ lp_stop

SpecLoop == Init /\ [][NextLoop]_vars

\* the event loop runs a task that is ready and a sleep ends
SpecLoopFair == Init /\ [][NextLoop]_vars /\ WF_vars(LoopStep)

TypeOKLoop ==
    /\ lp_tick \in 0..MaxLoopTicks
    /\ lp_pc \in {"jobs", "digest", "sleep", "stopped"}
    /\ lp_dispatched \subseteq LoopJobs
    /\ lp_raised \subseteq LoopJobs

\* C38: an error raised at one job in a round (for instance a cron
\* expression that does not parse) does not keep the other due jobs of the
\* round from being dispatched, does not skip the round's digest check and
\* does not stop the loop: while the scheduler runs, another round follows
C38_JobErrorLeavesTheRoundWhole ==
    /\ [][\A f \in BOOLEAN :
             (lp_check_and_run_jobs(f) /\ ~lp_failed')
             => /\ \A j \in LoopQuery : LoopDue(j) => j \in lp_dispatched'
                /\ lp_pc' = "digest"]_vars
    /\ [](lp_pc = "sleep" /\ ~lp_failed => lp_digest)
    /\ \A k \in 0..(MaxLoopTicks - 1) :
          (lp_running /\ lp_tick = k) ~> (~lp_running \/ lp_tick = k + 1)

\* a round in which one job raised and another was dispatched
C38_RaisedAndDispatched ==
    /\ lp_pc = "sleep" /\ lp_digest
    /\ \E j, k \in LoopJobs : j < k /\ j \in lp_raised /\ k \in lp_dispatched
    /\ lp_tick > 0

\* ================================================= reads and allowed_nodes
\* The read operations on nodes, jobs and logs (routers/nodes.py,
\* routers/sync_jobs.py, routers/logs.py).  An answer is kept as the set of
\* nodes it carries data of: a node row, a job with that node as source or
\* destination, or a log row of such a job (node_name, dataset, output).
notAccess == <<coreVars, notifVars, sshVars, digestVars, pveVars, nodeVars, refVars, sanoidVars, execVars, syncoidVars, cronVars, regrunVars, loopVars>>

AccessNodes == 1..NNodes
AccessJobIds == 1..NAccessJobs
AccessLogIds == 1..MaxAccessLogs
Roles == {"admin", "operator", "viewer"}
Ok == 200
Forbidden == 403
NotFound == 404

\* PUT /api/auth/users/{id}: role and allowed_nodes of the user
ac_update_user(role, allowed) ==
    /\ ac_user' = [role |-> role, allowed_nodes |-> allowed]
    /\ ac_response' = NoResponse
    /\ UNCHANGED <<ac_jobs, ac_logs, notAccess>>

\* POST /api/sync-jobs/: one job row, in no group
ac_create_job(s, d) ==
    /\ Cardinality(ac_jobs) < NAccessJobs
    /\ ac_jobs' = ac_jobs \cup {[id |-> Cardinality(ac_jobs) + 1, source_node_id |-> s,
                                 dest_node_id |-> d, vm_group_id |-> NoGroup]}
    /\ UNCHANGED <<ac_user, ac_logs, ac_response, notAccess>>

\* POST /api/sync-jobs/vm-replica: one row per disk, all between the same
\* two nodes and in one new group
ac_create_vm_replica_jobs(s, d, disks) ==
    /\ Cardinality(ac_jobs) + disks <= NAccessJobs
    /\ LET g == Cardinality({job.vm_group_id : job \in ac_jobs} \ {NoGroup}) + 1 IN
       ac_jobs' = ac_jobs \cup {[id |-> Cardinality(ac_jobs) + k, source_node_id |-> s,
                                 dest_node_id |-> d, vm_group_id |-> g] : k \in 1..disks}
    /\ UNCHANGED <<ac_user, ac_logs, ac_response, notAccess>>

\* a run of job j wrote its row: node_name and dataset name the job's nodes
ac_run(j) ==
    /\ Cardinality(ac_logs) < MaxAccessLogs
    /\ \E job \in ac_jobs :
          /\ job.id = j
          /\ ac_logs' = ac_logs \cup {[id |-> Cardinality(ac_logs) + 1, job_id |-> j,
                             nodes |-> {job.source_node_id, job.dest_node_id}]}
    /\ UNCHANGED <<ac_user, ac_jobs, ac_response, notAccess>>

\* nodes.py check_node_access
check_node_access(n) ==
    \/ ac_user.role = "admin"
    \/ ac_user.allowed_nodes.is_null
    \/ n \in ac_user.allowed_nodes.ids

\* sync_jobs.py check_job_access
check_job_access(job) ==
    \/ ac_user.role = "admin"
    \/ ac_user.allowed_nodes.is_null
    \/ /\ job.source_node_id \in ac_user.allowed_nodes.ids
       /\ job.dest_node_id \in ac_user.allowed_nodes.ids

JobNodes(jobs) == UNION {{job.source_node_id, job.dest_node_id} : job \in jobs}
LogNodes(logs) == UNION {l.nodes : l \in logs}

Answer(op, status, told) ==
    /\ ac_response' = [op |-> op, status |-> status, nodes |-> told]
    /\ UNCHANGED <<ac_user, ac_jobs, ac_logs, notAccess>>

\* GET /api/nodes/
list_nodes == Answer("list_nodes", Ok, {n \in AccessNodes : check_node_access(n)})

\* GET /api/nodes/{node_id}
get_node(n) ==
    IF check_node_access(n) THEN Answer("get_node", Ok, {n})
    ELSE Answer("get_node", Forbidden, {})

\* GET /api/sync-jobs/
list_sync_jobs ==
    Answer("list_sync_jobs", Ok, JobNodes({job \in ac_jobs : check_job_access(job)}))

\* GET /api/sync-jobs/{job_id}
get_sync_job(j) ==
    IF ~\E job \in ac_jobs : job.id = j THEN Answer("get_sync_job", NotFound, {})
    ELSE LET job == CHOOSE job \in ac_jobs : job.id = j IN
         IF check_job_access(job) THEN Answer("get_sync_job", Ok, JobNodes({job}))
         ELSE Answer("get_sync_job", Forbidden, {})

\* GET /api/sync-jobs/vm-group/{vm_group_id}: the access check reads the
\* first row of the group only (the rows of a group share their nodes)
get_vm_group_jobs(g) ==
    LET jobs == {job \in ac_jobs : job.vm_group_id = g} IN
    IF jobs = {} THEN Answer("get_vm_group_jobs", NotFound, {})
    ELSE LET first == CHOOSE job \in jobs : \A other \in jobs : job.id <= other.id IN
         IF check_job_access(first) THEN Answer("get_vm_group_jobs", Ok, JobNodes(jobs))
         ELSE Answer("get_vm_group_jobs", Forbidden, {})

\* GET /api/sync-jobs/{job_id}/logs
get_job_logs(j) ==
    IF ~\E job \in ac_jobs : job.id = j THEN Answer("get_job_logs", NotFound, {})
    ELSE LET job == CHOOSE job \in ac_jobs : job.id = j IN
         IF check_job_access(job)
         THEN Answer("get_job_logs", Ok, LogNodes({l \in ac_logs : l.job_id = j}))
         ELSE Answer("get_job_logs", Forbidden, {})

\* GET /api/logs/: any authenticated user, every row
list_logs == Answer("list_logs", Ok, LogNodes(ac_logs))

\* GET /api/logs/job/{job_id}/history: any authenticated user
get_job_history(j) ==
    Answer("get_job_history", Ok, LogNodes({l \in ac_logs : l.job_id = j}))

\* GET /api/logs/{log_id}: any authenticated user
get_log(id) ==
    IF \E l \in ac_logs : l.id = id
    THEN Answer("get_log", Ok, LogNodes({l \in ac_logs : l.id = id}))
    ELSE Answer("get_log", NotFound, {})

Read ==
    \/ list_nodes
    \/ \E n \in AccessNodes : get_node(n)
    \/ list_sync_jobs
    \/ \E j \in AccessJobIds : get_sync_job(j)
    \/ \E g \in AccessJobIds : get_vm_group_jobs(g)
    \/ \E j \in AccessJobIds : get_job_logs(j)
    \/ list_logs
    \/ \E j \in AccessJobIds : get_job_history(j)
    \/ \E id \in AccessLogIds : get_log(id)

NextAccess ==
    \/ \E r \in Roles, a \in {AllNodes} \cup {OnlyNodes(ids) : ids \in SUBSET AccessNodes} : ac_update_user(r, a)
    \/ \E s, d \in AccessNodes : ac_create_job(s, d)
    \/ \E s, d \in AccessNodes, disks \in 1..NAccessJobs : ac_create_vm_replica_jobs(s, d, disks)
    \/ \E j \in AccessJobIds : ac_run(j)
    \/ Read

SpecAccess == Init /\ [][NextAccess]_vars

TypeOKAccess ==
    /\ ac_user.role \in Roles
    /\ ac_response.status \in {0, Ok, Forbidden, NotFound}
    /\ ac_response.nodes \subseteq AccessNodes
    /\ Cardinality(ac_jobs) <= NAccessJobs
    /\ Cardinality(ac_logs) <= MaxAccessLogs

\* the user is not an admin and the node is not in its allowed_nodes
Excluded(n) ==
    /\ ac_user.role # "admin"
    /\ ~ac_user.allowed_nodes.is_null
    /\ n \notin ac_user.allowed_nodes.ids

\* C39: a user who is not an admin and whose allowed_nodes leaves a node out
\* gets, through no read operation (node, job, a job's logs, a job's
\* history, one log row), data of that node or of a job that has it as
\* source or destination
C39_NoDataOfExcludedNodes ==
    [][Read => \A n \in AccessNodes : Excluded(n) => n \notin ac_response'.nodes]_vars
====
